---------------------------- MODULE Spec2Model ----------------------------
(***************************************************************************)
(* A model of the resume optimizer core (src/backend/optimizer.py,         *)
(* src/backend/jd_analyzer.py, src/backend/skills_db.py).                  *)
(*                                                                         *)
(* Text is modelled by TLA+ strings, on which TLC evaluates Len, SubSeq    *)
(* and \o; substring search, case folding, trimming and the regular        *)
(* expressions of the source are built on these three.  Python dicts are   *)
(* functions whose DOMAIN is the set of keys that are present, lists are   *)
(* sequences.                                                              *)
(***************************************************************************)
EXTENDS Integers, Sequences, FiniteSets, TLC

VARIABLES
    pc,                     \* position of the modelled call
    resume_data,            \* the resume record handed to the call
    jd_analysis,            \* the JD profile handed to the call
    result,                 \* the value the call returned
    optimized_text,         \* optimize_resume: the lower-cased optimized text
    pre_ats,                \* optimize_resume: the score before the rewrite
    new_summary,            \* optimize_resume: the rewritten summary
    optimized_skills,       \* optimize_resume: the optimized skills list
    optimized_experience,   \* optimize_experience: the entries built so far
    used_keywords_global,   \* optimize_experience: keywords inserted so far
    optimized_entry,        \* optimize_experience: the entry being built
    optimized_bullets,      \* optimize_experience: its bullets so far
    ei,                     \* optimize_experience: index of the current entry
    bi,                     \* optimize_experience: index of the current bullet
    log,                    \* history: one record per enhance_bullet call
    jd_text,                \* the JD text handed to analyze_jd
    passes                  \* the frames of concurrent optimize_experience calls

locals == <<optimized_text, pre_ats, new_summary, optimized_skills, optimized_experience,
            used_keywords_global, optimized_entry, optimized_bullets, ei, bi, log,
            jd_text, passes>>

vars == <<pc, resume_data, jd_analysis, result, locals>>

(***************************************************************************)
(* Python strings and dicts                                                *)
(***************************************************************************)
UpperChars == "ABCDEFGHIJKLMNOPQRSTUVWXYZ"
LowerChars == "abcdefghijklmnopqrstuvwxyz"

CharIndex(alphabet, c) == CHOOSE i \in 1..Len(alphabet) : SubSeq(alphabet, i, i) = c

ToLower == [c \in {SubSeq(UpperChars, i, i) : i \in 1..Len(UpperChars)} |->
               SubSeq(LowerChars, CharIndex(UpperChars, c), CharIndex(UpperChars, c))]

ToUpper == [c \in {SubSeq(LowerChars, i, i) : i \in 1..Len(LowerChars)} |->
               SubSeq(UpperChars, CharIndex(LowerChars, c), CharIndex(LowerChars, c))]

LowerChar(c) == IF c \in DOMAIN ToLower THEN ToLower[c] ELSE c

UpperChar(c) == IF c \in DOMAIN ToUpper THEN ToUpper[c] ELSE c

\* str.lower(), by halves so that the recursion stays shallow
RECURSIVE Lower(_)
Lower(s) ==
    IF Len(s) = 0 THEN ""
    ELSE IF Len(s) = 1 THEN LowerChar(s)
    ELSE Lower(SubSeq(s, 1, Len(s) \div 2)) \o Lower(SubSeq(s, Len(s) \div 2 + 1, Len(s)))

\* Python's "sub in s" on strings
Contains(sub, s) ==
    \E i \in 1..(Len(s) - Len(sub) + 1) : SubSeq(s, i, i + Len(sub) - 1) = sub

\* [f(x) for x in xs]
LowerAll(xs) == [i \in 1..Len(xs) |-> Lower(xs[i])]

\* xs[:n]
Take(xs, n) == SubSeq(xs, 1, IF Len(xs) < n THEN Len(xs) ELSE n)

\* dict.get(k, default)
Get(d, k, default) == IF k \in DOMAIN d THEN d[k] ELSE default

\* the empty dict
EmptyDict == [k \in {} |-> 0]

Min(a, b) == IF a < b THEN a ELSE b

Max(a, b) == IF a > b THEN a ELSE b

\* the i-th character
Char(s, i) == SubSeq(s, i, i)

\* s[i:] with a 1-based i
From(s, i) == SubSeq(s, i, Len(s))

SetMin(S) == CHOOSE x \in S : \A y \in S : x <= y

SetMax(S) == CHOOSE x \in S : \A y \in S : x >= y

\* the characters \s matches and str.strip() removes (ASCII)
Whitespace == {" ", "\t", "\n", "\r", "\f"}

IsSpace(c) == c \in Whitespace

Digits == "0123456789"

IsDigit(c) == \E i \in 1..Len(Digits) : Char(Digits, i) = c

\* the characters \w matches (ASCII)
IsWordChar(c) == c \in DOMAIN ToLower \/ c \in DOMAIN ToUpper \/ IsDigit(c) \/ c = "_"

\* the first index >= from of a whitespace character, Len(s) + 1 when none
NextSpace(s, from) == SetMin({i \in from..Len(s) : IsSpace(Char(s, i))} \cup {Len(s) + 1})

\* the first index >= from of a non-whitespace character, Len(s) + 1 when none
NextNonSpace(s, from) == SetMin({i \in from..Len(s) : ~IsSpace(Char(s, i))} \cup {Len(s) + 1})

\* str.strip()
Strip(s) ==
    LET keep == {i \in 1..Len(s) : ~IsSpace(Char(s, i))}
    IN  IF keep = {} THEN "" ELSE SubSeq(s, SetMin(keep), SetMax(keep))

\* str.rstrip()
RStrip(s) ==
    LET keep == {i \in 1..Len(s) : ~IsSpace(Char(s, i))}
    IN  IF keep = {} THEN "" ELSE SubSeq(s, 1, SetMax(keep))

\* str.split(): the maximal runs of non-whitespace characters
RECURSIVE SplitFrom(_, _)
SplitFrom(s, from) ==
    LET a == NextNonSpace(s, from)
        b == NextSpace(s, a)
    IN  IF a > Len(s) THEN <<>> ELSE <<SubSeq(s, a, b - 1)>> \o SplitFrom(s, b)

Split(s) == SplitFrom(s, 1)

\* str.startswith(prefix)
StartsWith(s, prefix) == Len(prefix) <= Len(s) /\ SubSeq(s, 1, Len(prefix)) = prefix

\* str.endswith(suffix)
EndsWith(s, suffix) ==
    Len(suffix) <= Len(s) /\ SubSeq(s, Len(s) - Len(suffix) + 1, Len(s)) = suffix

\* s[0].upper() + s[1:]
UpperFirst(s) == IF s = "" THEN s ELSE UpperChar(Char(s, 1)) \o From(s, 2)

\* any(w in text for w in words)
AnyIn(words, text) == \E i \in 1..Len(words) : Contains(words[i], text)

(***************************************************************************)
(* ATS scorer: calculate_ats_score                                         *)
(***************************************************************************)
TechMax == 40
KeywordMax == 30
SoftMax == 15
SectionPoints == 3
SectionCap == 12
EmailPoints == 3
FormatMax == 15
Baseline == 15
ScoreCap == 100
GradeA == 85
GradeB == 70
GradeC == 55
BreakdownListCap == 10

CategoryScore_Rounded(matched, jd, max) ==
    (2 * Len(matched) * max + Len(jd)) \div (2 * Len(jd))

\* int(len(matched) / len(jd) * max): the float product truncates to the
\* integer quotient for every list length up to 400 (checked on the source)
CategoryScore(matched, jd, max) == (Len(matched) * max) \div Len(jd)

FormatSections == <<"experience", "education", "skills", "summary">>

FormatScore(resume) ==
    LET raw_sections == Get(resume, "raw_sections", EmptyDict)
        has_sections == Cardinality({i \in 1..Len(FormatSections) :
                                        FormatSections[i] \in DOMAIN raw_sections})
        email == Get(Get(resume, "contact", EmptyDict), "email", "")
    IN  Min(has_sections * SectionPoints, SectionCap)
        + (IF email # "" THEN EmailPoints ELSE 0)

GradeOf_Strict(score) ==
    IF score > GradeA THEN "A"
    ELSE IF score > GradeB THEN "B"
    ELSE IF score > GradeC THEN "C"
    ELSE "D"

\* "A" if score >= 85 else "B" if score >= 70 else "C" if score >= 55 else "D"
GradeOf(score) ==
    IF score >= GradeA THEN "A"
    ELSE IF score >= GradeB THEN "B"
    ELSE IF score >= GradeC THEN "C"
    ELSE "D"

ApplyBaseline_NoFloor(score) == score

\* score = max(score, 15)
ApplyBaseline(score) == Max(score, Baseline)

calculate_ats_score(resume, jd) ==
    LET resume_text == Lower(Get(resume, "full_text", ""))
        jd_tech_skills == LowerAll(Get(jd, "technical_skills", <<>>))
        jd_soft_skills == LowerAll(Get(jd, "soft_skills", <<>>))
        jd_keywords == LowerAll(Get(jd, "keywords", <<>>))
        InText(s) == Contains(s, resume_text)
        NotInText(s) == ~Contains(s, resume_text)
        matched_tech == SelectSeq(jd_tech_skills, InText)
        matched_kw == SelectSeq(jd_keywords, InText)
        matched_soft == SelectSeq(jd_soft_skills, InText)
        tech_score == IF jd_tech_skills # <<>>
                      THEN CategoryScore(matched_tech, jd_tech_skills, TechMax) ELSE 0
        kw_score == IF jd_keywords # <<>>
                    THEN CategoryScore(matched_kw, jd_keywords, KeywordMax) ELSE 0
        soft_score == IF jd_soft_skills # <<>>
                      THEN CategoryScore(matched_soft, jd_soft_skills, SoftMax) ELSE 0
        format_score == FormatScore(resume)
        breakdown ==
            (IF jd_tech_skills # <<>>
             THEN "technical_skills" :> [score |-> tech_score, max |-> TechMax,
                                         matched |-> matched_tech,
                                         missing |-> SelectSeq(jd_tech_skills, NotInText)]
             ELSE EmptyDict)
            @@ (IF jd_keywords # <<>>
                THEN "keywords" :> [score |-> kw_score, max |-> KeywordMax,
                                    matched |-> Take(matched_kw, BreakdownListCap),
                                    missing |-> Take(SelectSeq(jd_keywords, NotInText),
                                                     BreakdownListCap)]
                ELSE EmptyDict)
            @@ (IF jd_soft_skills # <<>>
                THEN "soft_skills" :> [score |-> soft_score, max |-> SoftMax,
                                       matched |-> matched_soft]
                ELSE EmptyDict)
            @@ ("format" :> [score |-> format_score, max |-> FormatMax])
        score == ApplyBaseline(tech_score + kw_score + soft_score + format_score)
    IN  [total |-> Min(score, ScoreCap),
         breakdown |-> breakdown,
         grade |-> GradeOf(score)]

(***************************************************************************)
(* Bounded inputs of the scorer                                            *)
(***************************************************************************)
MaxList == 5

SeqsUpTo(S, n) == UNION {[1..k -> S] : k \in 0..n}

ScoreTexts == {"", "Senior Python developer. Built scalable REST services; strong Leadership."}

ScoreSections ==
    {EmptyDict,
     [experience |-> "x"],
     [experience |-> "x", projects |-> "x"],
     [experience |-> "x", education |-> "x", projects |-> "x"],
     [experience |-> "x", education |-> "x", skills |-> "x"],
     [experience |-> "x", education |-> "x", skills |-> "x", summary |-> "x"],
     [experience |-> "x", education |-> "x", skills |-> "x", summary |-> "x",
      projects |-> "x"]}

ScoreContacts == {EmptyDict, [email |-> ""], [email |-> "ann@example.com", phone |-> "1"]}

ScoreResumes ==
    {[full_text |-> t, raw_sections |-> s, contact |-> c] :
        t \in ScoreTexts, s \in ScoreSections, c \in ScoreContacts}
    \cup {EmptyDict, [name |-> "Ann"]}

ScoreJDs ==
    {[technical_skills |-> ts, keywords |-> ks, soft_skills |-> ss] :
        ts \in SeqsUpTo({"python", "Kubernetes"}, MaxList),
        ks \in SeqsUpTo({"Scalable", "fintech"}, 2),
        ss \in SeqsUpTo({"leadership", "negotiation"}, 1)}
    \cup {EmptyDict}

\* the locals of optimize_resume before the call has assigned them, and no
\* JD text
LocalsIdle ==
    /\ jd_text = ""
    /\ passes = <<>>
    /\ optimized_text = ""
    /\ pre_ats = EmptyDict
    /\ new_summary = ""
    /\ optimized_skills = <<>>
    /\ optimized_experience = <<>>
    /\ used_keywords_global = <<>>
    /\ optimized_entry = EmptyDict
    /\ optimized_bullets = <<>>
    /\ ei = 0
    /\ bi = 0
    /\ log = <<>>

InitScore ==
    /\ pc = "call"
    /\ LocalsIdle
    /\ resume_data \in ScoreResumes
    /\ jd_analysis \in ScoreJDs
    /\ result = EmptyDict

CallScore ==
    /\ pc = "call"
    /\ result' = calculate_ats_score(resume_data, jd_analysis)
    /\ pc' = "done"
    /\ UNCHANGED <<resume_data, jd_analysis, locals>>

NextScore == CallScore

SpecScore == InitScore /\ [][NextScore]_vars

(***************************************************************************)
(* Skills taxonomy (skills_db.py), in the order of the dict                *)
(***************************************************************************)
SKILLS_DB ==
    <<
     [category |-> "programming_languages",
      skills |-> <<"python", "javascript", "typescript", "java", "c++", "c#", "c", "go",
                  "golang", "rust", "swift", "kotlin", "ruby", "php", "scala", "r",
                  "matlab", "perl", "shell", "bash", "powershell", "lua", "dart",
                  "elixir", "haskell", "clojure", "groovy", "objective-c", "vba",
                  "cobol", "fortran", "assembly", "solidity">>],
     [category |-> "web_frontend",
      skills |-> <<"react", "react.js", "reactjs", "angular", "angularjs", "vue",
                  "vue.js", "vuejs", "next.js", "nextjs", "nuxt.js", "svelte",
                  "ember.js", "backbone.js", "jquery", "html", "html5", "css", "css3",
                  "sass", "scss", "less", "tailwind", "tailwindcss", "bootstrap",
                  "material-ui", "mui", "chakra ui", "ant design", "styled-components",
                  "webpack", "vite", "babel", "parcel", "rollup", "redux", "zustand",
                  "mobx", "react query", "graphql client", "apollo client", "axios",
                  "fetch api", "typescript", "eslint", "prettier", "jest", "cypress",
                  "playwright", "storybook">>],
     [category |-> "web_backend",
      skills |-> <<"node.js", "nodejs", "express", "express.js", "fastapi", "flask",
                  "django", "spring", "spring boot", "laravel", "rails",
                  "ruby on rails", "asp.net", ".net core", "nestjs", "nest.js", "koa",
                  "hapi", "fastify", "gin", "fiber", "echo", "actix", "rocket",
                  "phoenix", "elixir phoenix", "graphql", "rest api", "restful api",
                  "grpc", "websocket", "oauth", "jwt", "swagger", "openapi">>],
     [category |-> "databases",
      skills |-> <<"sql", "mysql", "postgresql", "postgres", "sqlite", "oracle",
                  "sql server", "mssql", "mongodb", "mongoose", "redis",
                  "elasticsearch", "cassandra", "dynamodb", "firebase", "firestore",
                  "couchdb", "neo4j", "influxdb", "timescaledb", "mariadb",
                  "cockroachdb", "supabase", "planetscale", "prisma", "sequelize",
                  "typeorm", "sqlalchemy", "hibernate", "knex">>],
     [category |-> "cloud_devops",
      skills |-> <<"aws", "amazon web services", "azure", "microsoft azure", "gcp",
                  "google cloud", "google cloud platform", "docker", "kubernetes",
                  "k8s", "terraform", "ansible", "puppet", "chef", "jenkins", "ci/cd",
                  "github actions", "gitlab ci", "circleci", "travis ci", "helm",
                  "istio", "prometheus", "grafana", "elk stack", "elasticsearch",
                  "logstash", "kibana", "nginx", "apache", "linux", "unix",
                  "bash scripting", "devops", "sre", "site reliability", "ec2", "s3",
                  "lambda", "cloudfront", "rds", "vpc", "iam", "route53",
                  "azure devops", "azure functions", "gke", "aks", "eks", "fargate",
                  "serverless", "microservices", "service mesh", "load balancing",
                  "auto scaling", "cdn", "cloudwatch", "datadog", "new relic", "splunk">>],
     [category |-> "data_science_ml",
      skills |-> <<"machine learning", "ml", "deep learning", "neural networks", "nlp",
                  "natural language processing", "computer vision", "tensorflow",
                  "pytorch", "keras", "scikit-learn", "sklearn", "pandas", "numpy",
                  "scipy", "matplotlib", "seaborn", "plotly", "jupyter",
                  "data analysis", "data science", "statistics", "regression",
                  "classification", "clustering", "random forest", "xgboost",
                  "gradient boosting", "svm", "support vector machine", "cnn", "rnn",
                  "lstm", "transformer", "bert", "gpt", "hugging face", "mlflow",
                  "kubeflow", "airflow", "spark", "pyspark", "hadoop", "hive",
                  "data pipeline", "feature engineering", "model deployment",
                  "a/b testing", "hypothesis testing", "sql analytics", "power bi",
                  "tableau", "looker", "data studio", "dbt">>],
     [category |-> "mobile",
      skills |-> <<"ios", "android", "react native", "flutter", "swift", "kotlin",
                  "xcode", "android studio", "mobile development", "app development",
                  "pwa", "ionic", "xamarin", "cordova", "phonegap", "expo", "dart",
                  "push notifications", "firebase", "app store", "play store">>],
     [category |-> "cybersecurity",
      skills |-> <<"cybersecurity", "security", "penetration testing", "pen testing",
                  "ethical hacking", "vulnerability assessment", "siem", "soc",
                  "firewall", "ips", "ids", "encryption", "ssl/tls", "pki",
                  "identity management", "iam", "sso", "oauth", "zero trust", "owasp",
                  "compliance", "gdpr", "hipaa", "sox", "iso 27001", "nist",
                  "threat modeling", "incident response", "forensics", "burp suite",
                  "metasploit", "nmap", "wireshark", "kali linux">>],
     [category |-> "project_management",
      skills |-> <<"agile", "scrum", "kanban", "jira", "confluence", "trello", "asana",
                  "project management", "product management", "product owner",
                  "scrum master", "sprint planning", "roadmap",
                  "stakeholder management", "cross-functional", "waterfall", "pmp",
                  "prince2", "risk management", "budget management",
                  "resource planning", "pert", "gantt chart", "microsoft project",
                  "monday.com", "basecamp", "notion", "linear">>],
     [category |-> "soft_skills",
      skills |-> <<"leadership", "communication", "collaboration", "teamwork",
                  "problem-solving", "critical thinking", "analytical", "creative",
                  "innovative", "adaptable", "attention to detail", "time management",
                  "mentoring", "coaching", "presentation", "public speaking",
                  "negotiation", "conflict resolution", "decision making",
                  "strategic thinking", "customer-focused", "results-driven",
                  "self-motivated", "proactive", "organized", "detail-oriented",
                  "fast learner", "cross-functional collaboration",
                  "stakeholder communication", "client management">>],
     [category |-> "finance_business",
      skills |-> <<"financial analysis", "financial modeling", "excel", "vba",
                  "bloomberg", "sql", "tableau", "powerbi", "accounting", "gaap",
                  "ifrs", "budgeting", "forecasting", "variance analysis", "kpi", "roi",
                  "p&l", "balance sheet", "income statement", "cash flow", "valuation",
                  "dcf", "merger", "acquisition", "investment banking",
                  "private equity", "hedge fund", "risk management", "compliance",
                  "audit", "tax", "erp", "sap", "oracle financials", "quickbooks">>],
     [category |-> "design",
      skills |-> <<"figma", "sketch", "adobe xd", "photoshop", "illustrator", "indesign",
                  "after effects", "premiere pro", "invision", "zeplin", "framer",
                  "ui design", "ux design", "user research", "wireframing",
                  "prototyping", "design systems", "accessibility", "usability testing",
                  "a/b testing", "visual design", "typography", "color theory",
                  "branding", "motion design">>],
     [category |-> "marketing",
      skills |-> <<"seo", "sem", "google ads", "facebook ads", "meta ads",
                  "social media marketing", "content marketing", "email marketing",
                  "hubspot", "salesforce", "crm", "google analytics", "ga4",
                  "marketing automation", "lead generation", "conversion optimization",
                  "cro", "copywriting", "brand strategy", "market research",
                  "competitive analysis", "go-to-market", "demand generation">>]
    >>

(***************************************************************************)
(* optimize_skills_section                                                 *)
(***************************************************************************)
\* sep.join(xs)
RECURSIVE Join(_, _)
Join(xs, sep) ==
    IF Len(xs) = 0 THEN ""
    ELSE IF Len(xs) = 1 THEN xs[1]
    ELSE xs[1] \o sep \o Join(Tail(xs), sep)

\* [s.lower() for s in domain_skills], for every category
DomainSkillsLower ==
    [c \in 1..Len(SKILLS_DB) |->
        {Lower(SKILLS_DB[c].skills[i]) : i \in 1..Len(SKILLS_DB[c].skills)}]

\* skill.lower() in [s.lower() for s in domain_skills]
InCategory(skill, c) == Lower(skill) \in DomainSkillsLower[c]

\* the categories (indices into SKILLS_DB) the resume's skills are listed in
ExistingDomains(resume_skills) ==
    {c \in 1..Len(SKILLS_DB) : \E i \in 1..Len(resume_skills) : InCategory(resume_skills[i], c)}

\* the first category listing the skill (the loop breaks at the first hit); 0 for None
SkillDomain(jd_skill) ==
    IF \E c \in 1..Len(SKILLS_DB) : InCategory(jd_skill, c)
    THEN CHOOSE c \in 1..Len(SKILLS_DB) :
            /\ InCategory(jd_skill, c)
            /\ \A b \in 1..(c - 1) : ~InCategory(jd_skill, b)
    ELSE 0

DomainAllowed_Any(skill_domain, existing_domains) == skill_domain # 0

\* if skill_domain and skill_domain in existing_domains
DomainAllowed(skill_domain, existing_domains) ==
    skill_domain # 0 /\ skill_domain \in existing_domains

\* the case-insensitive deduplication that keeps the first occurrence
RECURSIVE DedupeFrom(_, _)
DedupeFrom(xs, seen) ==
    IF xs = <<>> THEN <<>>
    ELSE IF Lower(Head(xs)) \in seen THEN DedupeFrom(Tail(xs), seen)
    ELSE <<Head(xs)>> \o DedupeFrom(Tail(xs), seen \cup {Lower(Head(xs))})

Dedupe_Identity(xs) == xs

Dedupe(xs) == DedupeFrom(xs, {})

optimize_skills_section(resume_skills, jd) ==
    LET jd_tech_skills == Get(jd, "technical_skills", <<>>)
        resume_text_lower == Join(LowerAll(resume_skills), " ")
        existing_domains == ExistingDomains(resume_skills)
        Added(jd_skill) ==
            /\ ~Contains(Lower(jd_skill), resume_text_lower)
            /\ DomainAllowed(SkillDomain(jd_skill), existing_domains)
        optimized == resume_skills \o SelectSeq(jd_tech_skills, Added)
    IN  Dedupe(optimized)

(***************************************************************************)
(* Bounded inputs of optimize_skills_section                               *)
(***************************************************************************)
MaxResumeSkills == 2
MaxJDSkills == 2

SkillsResumeVocab == {"Python", "python", "React", "SQL", "Gardening", "JavaScript"}

SkillsJDVocab == {"typescript", "Docker", "mysql", "java", "excel", "Python", "Kotlin"}

InitSkills ==
    /\ pc = "call"
    /\ LocalsIdle
    /\ resume_data \in {[skills |-> s] : s \in SeqsUpTo(SkillsResumeVocab, MaxResumeSkills)}
                     \cup {EmptyDict}
    /\ jd_analysis \in {[technical_skills |-> s] : s \in SeqsUpTo(SkillsJDVocab, MaxJDSkills)}
                     \cup {EmptyDict}
    /\ result = <<>>

CallSkills ==
    /\ pc = "call"
    /\ result' = optimize_skills_section(Get(resume_data, "skills", <<>>), jd_analysis)
    /\ pc' = "done"
    /\ UNCHANGED <<resume_data, jd_analysis, locals>>

NextSkills == CallSkills

SpecSkills == InitSkills /\ [][NextSkills]_vars

(***************************************************************************)
(* Verb tables (skills_db.py, optimizer.py)                                *)
(***************************************************************************)
STRONG_VERBS ==
    "achievement" :> <<"Achieved", "Delivered", "Exceeded", "Surpassed", "Accomplished", "Attained">>
    @@ "leadership" :> <<"Led", "Directed", "Managed", "Oversaw", "Supervised", "Mentored", "Guided">>
    @@ "development" :> <<"Developed", "Built", "Engineered", "Architected", "Designed",
            "Implemented", "Deployed">>
    @@ "improvement" :> <<"Optimized", "Enhanced", "Streamlined", "Improved", "Accelerated",
            "Boosted", "Elevated">>
    @@ "creation" :> <<"Created", "Established", "Launched", "Pioneered", "Initiated", "Founded",
            "Introduced">>
    @@ "analysis" :> <<"Analyzed", "Evaluated", "Assessed", "Investigated", "Researched",
            "Identified", "Diagnosed">>
    @@ "collaboration" :> <<"Collaborated", "Partnered", "Coordinated", "Facilitated", "Liaised",
            "Aligned">>
    @@ "growth" :> <<"Grew", "Scaled", "Expanded", "Increased", "Generated", "Drove", "Amplified">>
    @@ "reduction" :> <<"Reduced", "Decreased", "Minimized", "Cut", "Eliminated", "Saved", "Lowered">>
    @@ "automation" :> <<"Automated", "Integrated", "Migrated", "Modernized", "Digitized",
            "Transformed">>

WEAK_VERBS ==
    <<"did", "made", "helped", "worked", "was", "had", "got", "put", "used", "wrote",
      "ran", "kept", "gave", "took", "tried", "went", "came", "saw", "knew", "thought",
      "felt", "found", "told", "asked">>

ING_TO_PAST ==
    "building" :> "Built" @@ "developing" :> "Developed" @@ "designing" :> "Designed" @@
    "implementing" :> "Implemented" @@ "creating" :> "Created" @@ "leading" :> "Led" @@
    "managing" :> "Managed" @@ "delivering" :> "Delivered" @@
    "architecting" :> "Architected" @@ "optimizing" :> "Optimized" @@
    "maintaining" :> "Maintained" @@ "deploying" :> "Deployed" @@
    "analyzing" :> "Analyzed" @@ "improving" :> "Improved" @@
    "establishing" :> "Established" @@ "driving" :> "Drove" @@
    "collaborating" :> "Collaborated" @@ "coordinating" :> "Coordinated" @@
    "mentoring" :> "Mentored" @@ "reviewing" :> "Reviewed" @@
    "monitoring" :> "Monitored" @@ "automating" :> "Automated" @@
    "integrating" :> "Integrated" @@ "migrating" :> "Migrated" @@
    "launching" :> "Launched" @@ "scaling" :> "Scaled" @@ "supporting" :> "Supported" @@
    "writing" :> "Wrote" @@ "testing" :> "Tested" @@ "debugging" :> "Debugged" @@
    "configuring" :> "Configured" @@ "setting" :> "Set up" @@
    "working" :> "Worked on" @@ "ensuring" :> "Ensured" @@ "overseeing" :> "Oversaw" @@
    "handling" :> "Handled"

(***************************************************************************)
(* Phrase rewriter: SMART_TRANSFORMS, apply_smart_transform,               *)
(* replace_weak_verb.  The sentences of the model are ASCII and hold no    *)
(* line break, so "." matches every character of a sentence.               *)
(***************************************************************************)
\* One row per (pattern, replacer) pair, in the order of the list.  kind:
\*   "rest"  ^w1\s+..wn\s+(.+)                      -> out + group 1
\*   "ing"   ^w1\s+..wn\s+(\w+ing)\s+(.+)           -> past tense + " " + group 2
\*   "alt"   ^w1\s+..wn\s+(a1|a2|..)\s+(.+)         -> past tense + " " + group 2
\*   "drop"  ^w1\s+..wn\s+(.+?)\s+(a1|..)(.*)$      -> out + group 1 + group 3
\*   "keep"  ^w1\s+..wn\s+(.+?)\s+(a1|..)(.*)$      -> out + group 1 + " " + group 2 + group 3
\*   "for"   ^w1\s+..wn\s+(.+?)\s+for\s+(.+)        -> out + group 1 + " for " + group 2
\* For "ing" and "alt", out is the default of ING_TO_PAST.get.
SMART_TRANSFORMS ==
    <<[kind |-> "ing", words |-> <<"was", "responsible", "for">>, alts |-> <<>>,
       out |-> "Managed"],
      [kind |-> "rest", words |-> <<"was", "responsible", "for">>, alts |-> <<>>,
       out |-> "Managed "],
      [kind |-> "alt", words |-> <<"responsible", "for">>,
       alts |-> <<"building", "developing", "creating", "designing", "implementing",
                  "maintaining", "managing", "leading">>,
       out |-> "Developed"],
      [kind |-> "rest", words |-> <<"responsible", "for">>, alts |-> <<>>,
       out |-> "Managed "],
      [kind |-> "alt", words |-> <<"worked", "on">>,
       alts |-> <<"developing", "building", "creating", "designing", "implementing">>,
       out |-> "Developed"],
      [kind |-> "drop", words |-> <<"worked", "on">>,
       alts |-> <<"development", "implementation", "testing">>,
       out |-> "Developed "],
      [kind |-> "rest", words |-> <<"worked", "on">>, alts |-> <<>>,
       out |-> "Developed "],
      [kind |-> "rest", words |-> <<"was", "involved", "in">>, alts |-> <<>>,
       out |-> "Contributed to "],
      [kind |-> "rest", words |-> <<"was", "part", "of">>, alts |-> <<>>,
       out |-> "Served as integral member of "],
      [kind |-> "rest", words |-> <<"was">>, alts |-> <<>>,
       out |-> "Operated as "],
      [kind |-> "rest", words |-> <<"helped", "with">>, alts |-> <<>>,
       out |-> "Enhanced "],
      [kind |-> "rest", words |-> <<"helped", "to">>, alts |-> <<>>,
       out |-> "Supported "],
      [kind |-> "rest", words |-> <<"assisted", "in">>, alts |-> <<>>,
       out |-> "Collaborated on "],
      [kind |-> "rest", words |-> <<"did">>, alts |-> <<>>,
       out |-> "Executed "],
      [kind |-> "rest", words |-> <<"participated", "in">>, alts |-> <<>>,
       out |-> "Actively contributed to "],
      [kind |-> "keep", words |-> <<"made">>,
       alts |-> <<"api", "apis", "service", "services", "system", "systems", "pipeline">>,
       out |-> "Engineered "],
      [kind |-> "rest", words |-> <<"made">>, alts |-> <<>>,
       out |-> "Developed "],
      [kind |-> "for", words |-> <<"used">>, alts |-> <<"for">>,
       out |-> "Leveraged "],
      [kind |-> "rest", words |-> <<"used">>, alts |-> <<>>,
       out |-> "Utilized "],
      [kind |-> "rest", words |-> <<"tried", "to">>, alts |-> <<>>,
       out |-> "Successfully "]>>

\* low is the lower-case copy of the sentence.  The index after the leading
\* words w1\s+w2\s+...wn\s+ (each \s+ takes the whole run of whitespace),
\* 0 when they do not match at the start.
RECURSIVE MatchWords(_, _, _)
MatchWords(low, words, from) ==
    IF words = <<>> THEN from
    ELSE LET e == from + Len(Head(words))
         IN  IF /\ e <= Len(low)
                /\ SubSeq(low, from, e - 1) = Head(words)
                /\ IsSpace(Char(low, e))
             THEN MatchWords(low, Tail(words), NextNonSpace(low, e))
             ELSE 0

\* low[at:] starts with word
StartsAt(low, at, word) ==
    at + Len(word) - 1 <= Len(low) /\ SubSeq(low, at, at + Len(word) - 1) = word

\* the first alternative that matches at index at, "" when none does
FirstAlt(low, at, alts) ==
    IF \E i \in 1..Len(alts) : StartsAt(low, at, alts[i])
    THEN alts[SetMin({i \in 1..Len(alts) : StartsAt(low, at, alts[i])})]
    ELSE ""

\* (\w+ing): the run of characters up to the next whitespace is made of
\* word characters and ends in "ing" after at least one character
IsGerund(token) ==
    /\ Len(token) >= 4
    /\ EndsWith(token, "ing")
    /\ \A i \in 1..Len(token) : IsWordChar(Char(token, i))

NoMatch == [matched |-> FALSE, text |-> ""]

\* rules "ing" and "alt": a verb token, whitespace, and the rest
MatchVerbRule(rule, s, low, from) ==
    LET e == NextSpace(low, from)
        token == SubSeq(low, from, e - 1)
        rest == NextNonSpace(low, e)
        verb_ok == IF rule.kind = "ing" THEN IsGerund(token)
                   ELSE \E i \in 1..Len(rule.alts) : rule.alts[i] = token
    IN  IF e <= Len(low) /\ rest <= Len(low) /\ verb_ok
        THEN [matched |-> TRUE,
              text |-> Get(ING_TO_PAST, token, rule.out) \o " " \o From(s, rest)]
        ELSE NoMatch

\* rules "drop", "keep" and "for": the lazy group (.+?) ends at the first
\* index e whose next character is whitespace followed by an alternative
MatchLazyRule(rule, s, low, from) ==
    LET Hit(e) ==
            /\ IsSpace(Char(low, e + 1))
            /\ LET k == NextNonSpace(low, e + 1)
                   alt == FirstAlt(low, k, rule.alts)
               IN  /\ alt # ""
                   /\ rule.kind = "for" =>
                        /\ k + Len(alt) <= Len(low)
                        /\ IsSpace(Char(low, k + Len(alt)))
                        /\ NextNonSpace(low, k + Len(alt)) <= Len(low)
        ends == {e \in from..(Len(low) - 1) : Hit(e)}
    IN  IF from > Len(low) \/ ends = {} THEN NoMatch
        ELSE LET e == SetMin(ends)
                 k == NextNonSpace(low, e + 1)
                 alt == FirstAlt(low, k, rule.alts)
                 g1 == SubSeq(s, from, e)
             IN  [matched |-> TRUE,
                  text |->
                    IF rule.kind = "drop" THEN rule.out \o g1 \o From(s, k + Len(alt))
                    ELSE IF rule.kind = "keep" THEN rule.out \o g1 \o " " \o From(s, k)
                    ELSE rule.out \o g1 \o " for "
                         \o From(s, NextNonSpace(low, k + Len(alt)))]

\* re.match(pattern, s, re.IGNORECASE) followed by replacer(m)
MatchRule(rule, s) ==
    LET low == Lower(s)
        from == MatchWords(low, rule.words, 1)
    IN  IF from = 0 \/ from > Len(low) THEN NoMatch
        ELSE IF rule.kind = "rest"
             THEN [matched |-> TRUE, text |-> rule.out \o From(s, from)]
        ELSE IF rule.kind \in {"ing", "alt"} THEN MatchVerbRule(rule, s, low, from)
        ELSE MatchLazyRule(rule, s, low, from)

FirstMatch_Last(rules, s) ==
    LET hits == {i \in 1..Len(rules) : MatchRule(rules[i], s).matched}
    IN  IF hits = {} THEN NoMatch ELSE MatchRule(rules[SetMax(hits)], s)

\* the rules are tried in list order; the first that matches decides
FirstMatch(rules, s) ==
    LET hits == {i \in 1..Len(rules) : MatchRule(rules[i], s).matched}
    IN  IF hits = {} THEN NoMatch ELSE MatchRule(rules[SetMin(hits)], s)

\* matched = FALSE stands for None
apply_smart_transform(sentence) ==
    LET m == FirstMatch(SMART_TRANSFORMS, Strip(sentence))
    IN  IF m.matched THEN [matched |-> TRUE, text |-> UpperFirst(m.text)] ELSE NoMatch

\* re.sub(r'^[<glyphs>\-\*\s]+', '', sentence): of the glyph class the model
\* holds the ASCII members, "-" and "*", and whitespace
BulletGlyphs == {"-", "*"} \cup Whitespace

StripGlyphs(s) ==
    From(s, SetMin({i \in 1..Len(s) : Char(s, i) \notin BulletGlyphs} \cup {Len(s) + 1}))

\* first_word_lower == weak or (len > 4 and startswith(weak[:4]) and weak not in (...))
WeakPrefixLen == 4

IsWeakMatch(first_word_lower, weak) ==
    \/ first_word_lower = weak
    \/ /\ Len(first_word_lower) > WeakPrefixLen
       /\ StartsWith(first_word_lower, Take(weak, WeakPrefixLen))
       /\ weak \notin {"the", "was", "has"}

IsWeakVerb(first_word_lower) ==
    \E i \in 1..Len(WEAK_VERBS) : IsWeakMatch(first_word_lower, WEAK_VERBS[i])

\* the if/elif chain over the context words, in order
VERB_CONTEXTS ==
    <<[triggers |-> <<"team", "cross", "group", "stakeholder", "collaborate">>,
       pool |-> "collaboration"],
      [triggers |-> <<"build", "develop", "creat", "code", "implement", "deploy",
                      "architect", "api", "service", "system">>,
       pool |-> "development"],
      [triggers |-> <<"increas", "grow", "generat", "revenue", "sale", "boost">>,
       pool |-> "growth"],
      [triggers |-> <<"reduc", "decreas", "cut", "lower", "minim", "remov">>,
       pool |-> "reduction"],
      [triggers |-> <<"analyz", "resear", "assess", "evaluat", "investigat", "diagnos">>,
       pool |-> "analysis"],
      [triggers |-> <<"lead", "manag", "direct", "mentor", "supervis", "overse">>,
       pool |-> "leadership"],
      [triggers |-> <<"automat", "integrat", "migrat", "digit", "transform">>,
       pool |-> "automation"],
      [triggers |-> <<"optimiz", "improv", "enhanc", "streamlin", "acceler">>,
       pool |-> "improvement"]>>

VerbPool_LastContext(context_lower) ==
    LET hits == {i \in 1..Len(VERB_CONTEXTS) : AnyIn(VERB_CONTEXTS[i].triggers, context_lower)}
    IN  IF hits = {} THEN "development" ELSE VERB_CONTEXTS[SetMax(hits)].pool

\* the pool random.choice draws the new verb from
VerbPool(context_lower) ==
    LET hits == {i \in 1..Len(VERB_CONTEXTS) : AnyIn(VERB_CONTEXTS[i].triggers, context_lower)}
    IN  IF hits = {} THEN "development" ELSE VERB_CONTEXTS[SetMin(hits)].pool

\* the members of a list
Range(xs) == {xs[i] : i \in 1..Len(xs)}

replace_weak_verb_ReturnsClean(sentence0) ==
    LET sentence == Strip(sentence0)
        clean == Strip(StripGlyphs(sentence))
        smart == apply_smart_transform(clean)
        words == Split(clean)
        rest == Join(Tail(words), " ")
    IN  IF sentence = "" \/ clean = "" THEN {sentence}
        ELSE IF smart.matched THEN {smart.text}
        ELSE IF IsWeakVerb(Lower(words[1])) /\ rest # ""
             THEN {new_verb \o " " \o rest :
                     new_verb \in Range(STRONG_VERBS[VerbPool(Lower(clean))])}
        ELSE {clean}

\* replace_weak_verb: the set of strings the call can return, one for each
\* outcome of random.choice
replace_weak_verb(sentence0) ==
    LET sentence == Strip(sentence0)
        clean == Strip(StripGlyphs(sentence))
        smart == apply_smart_transform(clean)
        words == Split(clean)
        rest == Join(Tail(words), " ")
    IN  IF sentence = "" \/ clean = "" THEN {sentence}
        ELSE IF smart.matched THEN {smart.text}
        ELSE IF IsWeakVerb(Lower(words[1])) /\ rest # ""
             THEN {new_verb \o " " \o rest :
                     new_verb \in Range(STRONG_VERBS[VerbPool(Lower(clean))])}
        ELSE {sentence}

(***************************************************************************)
(* Keyword insertion engine: is_contextually_relevant,                     *)
(* insert_keyword_naturally, enhance_bullet                                *)
(***************************************************************************)
FRONTEND_TERMS == <<"frontend", "front-end", "ui", "react", "angular", "vue", "css", "html",
                    "browser">>

BACKEND_TERMS == <<"api", "backend", "back-end", "server", "endpoint", "microservice",
                   "python", "node", "flask", "django", "fastapi", "express", "spring">>

DATA_TERMS == <<"database", "data", "query", "sql", "schema", "table", "index",
                "postgresql", "mysql", "mongodb", "redis", "cache", "store">>

DEVOPS_TERMS == <<"deploy", "pipeline", "ci", "cd", "docker", "kubernetes", "container",
                  "infrastructure", "cloud", "aws", "azure", "gcp", "server", "host",
                  "terraform", "helm", "jenkins", "github actions">>

TECH_TERMS == <<"develop", "built", "implemented", "created", "designed", "engineered",
                "architected", "leveraged", "utilized", "configured", "integrated">>

INFRA_KWS == <<"aws", "azure", "gcp", "ec2", "s3", "lambda", "kubernetes", "k8s",
               "terraform", "helm", "nginx", "ansible", "fargate", "ecs", "eks">>

CICD_KWS == <<"ci/cd", "github actions", "jenkins", "gitlab ci", "circleci">>

DB_KWS == <<"postgresql", "mysql", "mongodb", "redis", "elasticsearch", "sqlite",
            "oracle", "cassandra", "dynamodb", "influxdb", "mariadb", "couchdb">>

FRONTEND_KWS == <<"react", "angular", "vue", "svelte", "next.js", "nuxt.js",
                  "tailwind", "bootstrap", "css", "html", "typescript">>

BACKEND_KWS == <<"fastapi", "django", "flask", "spring", "express", "nestjs", "gin",
                 "graphql", "grpc", "rest">>

LANG_KWS ==
    <<[lang |-> "python", triggers |-> <<"python", "flask", "django", "fastapi">>],
      [lang |-> "javascript", triggers |-> <<"javascript", "node", "react", "express", "js">>],
      [lang |-> "typescript", triggers |-> <<"typescript", "react", "angular", "nestjs", "ts">>],
      [lang |-> "java", triggers |-> <<"java", "spring", "maven", "gradle">>],
      [lang |-> "go", triggers |-> <<"golang", "go ", "gin", "fiber">>]>>

GenericMinLen == 3

\* x in xs, for a list
InList(x, xs) == \E i \in 1..Len(xs) : xs[i] = x

\* bullet_is_devops
BulletIsDevops(bullet_lower) == AnyIn(DEVOPS_TERMS, bullet_lower)

is_contextually_relevant_GenericOnly(keyword, bullet) ==
    /\ ~Contains(Lower(keyword), Lower(bullet))
    /\ AnyIn(TECH_TERMS, Lower(bullet))
    /\ Len(keyword) > GenericMinLen

is_contextually_relevant(keyword, bullet) ==
    LET kw_lower == Lower(keyword)
        bullet_lower == Lower(bullet)
        bullet_is_frontend == AnyIn(FRONTEND_TERMS, bullet_lower)
        bullet_is_backend == AnyIn(BACKEND_TERMS, bullet_lower)
        bullet_is_data == AnyIn(DATA_TERMS, bullet_lower)
        bullet_is_devops == BulletIsDevops(bullet_lower)
        bullet_is_tech == AnyIn(TECH_TERMS, bullet_lower)
        langs == {i \in 1..Len(LANG_KWS) : LANG_KWS[i].lang = kw_lower}
    IN  IF Contains(kw_lower, bullet_lower) THEN FALSE
        ELSE IF InList(kw_lower, INFRA_KWS) THEN bullet_is_devops
        ELSE IF InList(kw_lower, CICD_KWS)
             THEN bullet_is_devops \/ Contains("pipeline", bullet_lower)
                  \/ Contains("automat", bullet_lower)
        ELSE IF InList(kw_lower, DB_KWS) THEN bullet_is_data
        ELSE IF InList(kw_lower, FRONTEND_KWS)
             THEN bullet_is_frontend
                  \/ (bullet_is_tech /\ ~bullet_is_data /\ ~bullet_is_devops)
        ELSE IF InList(kw_lower, BACKEND_KWS)
             THEN bullet_is_backend
                  \/ (bullet_is_tech /\ ~bullet_is_data /\ ~bullet_is_devops)
        ELSE IF langs # {} THEN AnyIn(LANG_KWS[SetMin(langs)].triggers, bullet_lower)
        ELSE bullet_is_tech /\ Len(keyword) > GenericMinLen

\* \b at index i of s: exactly one of s[i-1], s[i] is a word character
WordBoundary(s, i) ==
    (i <= Len(s) /\ IsWordChar(Char(s, i))) # (i > 1 /\ IsWordChar(Char(s, i - 1)))

\* re.search(r'\b' + re.escape(kw), s)
SearchAtWordStart(kw, s) ==
    \E i \in 1..(Len(s) - Len(kw) + 1) : StartsAt(s, i, kw) /\ WordBoundary(s, i)

BUILD_VERBS == <<"developed", "built", "implemented", "created", "designed", "engineered",
                 "architected">>

IMPROVE_VERBS == <<"optimized", "improved", "enhanced", "streamlined">>

DEPLOY_VERBS == <<"deployed", "configured", "containerized", "migrated">>

CLOUD_PLATFORMS == <<"aws", "azure", "gcp", "eks", "gke">>

\* bullet[:-1] + clause + "." when bullet.rstrip() ends with ".", else bullet + clause
AppendClause(bullet, clause) ==
    IF EndsWith(RStrip(bullet), ".")
    THEN SubSeq(bullet, 1, Len(bullet) - 1) \o clause \o "."
    ELSE bullet \o clause

insert_keyword_naturally(bullet, keyword) ==
    LET bullet_lower == Lower(bullet)
        kw_lower == Lower(keyword)
    IN  IF Contains(kw_lower, bullet_lower) THEN bullet
        ELSE IF ~is_contextually_relevant(keyword, bullet) THEN bullet
        ELSE IF AnyIn(BUILD_VERBS, bullet_lower) /\ ~SearchAtWordStart(kw_lower, bullet_lower)
             THEN AppendClause(bullet, ", leveraging " \o keyword)
        ELSE IF AnyIn(IMPROVE_VERBS, bullet_lower)
             THEN AppendClause(bullet, " with " \o keyword)
        ELSE IF AnyIn(DEPLOY_VERBS, bullet_lower)
             THEN AppendClause(bullet,
                               (IF InList(kw_lower, CLOUD_PLATFORMS) THEN " on " ELSE " using ")
                               \o keyword)
        ELSE bullet

ShortBulletLen == 5
LongBulletLen == 160

SkillUsed_Never(skill, used_keywords) == FALSE

\* if skill in used_keywords: continue
SkillUsed(skill, used_keywords) == InList(skill, used_keywords)

\* the index of the skill the loop of step 2 inserts, 0 when it inserts none
InsertedSkill(enhanced, jd_skills, used_keywords) ==
    LET tried == {i \in 1..Len(jd_skills) :
                    /\ ~SkillUsed(jd_skills[i], used_keywords)
                    /\ ~Contains(Lower(jd_skills[i]), Lower(enhanced))
                    /\ insert_keyword_naturally(enhanced, jd_skills[i]) # enhanced}
    IN  IF Len(enhanced) < LongBulletLen /\ tried # {} THEN SetMin(tried) ELSE 0

\* enhance_bullet after step 1 has produced rewritten: the returned bullet,
\* the used_keywords list as the call leaves it, and the inserted skill
\* (inserted = "" when none)
EnhanceRewritten(rewritten, jd_skills, used_keywords) ==
    LET k == InsertedSkill(rewritten, jd_skills, used_keywords)
    IN  IF k = 0
        THEN [bullet |-> UpperFirst(rewritten), used |-> used_keywords, inserted |-> <<>>]
        ELSE [bullet |-> UpperFirst(insert_keyword_naturally(rewritten, jd_skills[k])),
              used |-> Append(used_keywords, jd_skills[k]),
              inserted |-> <<jd_skills[k]>>]

\* enhance_bullet: every outcome of the call, one for each outcome of the
\* random choice in replace_weak_verb
enhance_bullet(bullet, jd_keywords, jd_skills, used_keywords) ==
    IF bullet = "" \/ Len(bullet) < ShortBulletLen
    THEN {[bullet |-> bullet, used |-> used_keywords, inserted |-> <<>>]}
    ELSE {EnhanceRewritten(rewritten, jd_skills, used_keywords) :
            rewritten \in replace_weak_verb(bullet)}

(***************************************************************************)
(* rewrite_summary                                                         *)
(***************************************************************************)
IsLetter(c) == c \in DOMAIN ToLower \/ c \in DOMAIN ToUpper

\* str.upper(), by halves
RECURSIVE Upper(_)
Upper(s) ==
    IF Len(s) = 0 THEN ""
    ELSE IF Len(s) = 1 THEN UpperChar(s)
    ELSE Upper(SubSeq(s, 1, Len(s) \div 2)) \o Upper(SubSeq(s, Len(s) \div 2 + 1, Len(s)))

\* str.capitalize()
Capitalize(s) == IF s = "" THEN s ELSE UpperChar(Char(s, 1)) \o Lower(From(s, 2))

\* str.title() on s[a..b]: a letter is upper case when no letter precedes it
RECURSIVE TitleRange(_, _, _)
TitleRange(s, a, b) ==
    IF a > b THEN ""
    ELSE IF a = b
         THEN IF a > 1 /\ IsLetter(Char(s, a - 1)) THEN LowerChar(Char(s, a))
              ELSE UpperChar(Char(s, a))
    ELSE TitleRange(s, a, (a + b) \div 2) \o TitleRange(s, (a + b) \div 2 + 1, b)

Title(s) == TitleRange(s, 1, Len(s))

\* str.rstrip('.')
RStripDots(s) ==
    LET keep == {i \in 1..Len(s) : Char(s, i) # "."}
    IN  IF keep = {} THEN "" ELSE SubSeq(s, 1, SetMax(keep))

\* re.search(r'\d+', s)
HasDigit(s) == \E i \in 1..Len(s) : IsDigit(Char(s, i))

\* re.search(r'\d+%|\$[\d,]+|\d+x|\b\d{2,}\b', s, re.IGNORECASE)
HasMetric(s) ==
    \E i \in 1..Len(s) :
        \/ /\ IsDigit(Char(s, i))
           /\ i < Len(s)
           /\ Char(s, i + 1) \in {"%", "x", "X"}
        \/ /\ Char(s, i) = "$"
           /\ i < Len(s)
           /\ (IsDigit(Char(s, i + 1)) \/ Char(s, i + 1) = ",")
        \/ /\ IsDigit(Char(s, i))
           /\ (i = 1 \/ ~IsWordChar(Char(s, i - 1)))
           /\ \E j \in (i + 1)..Len(s) :
                /\ \A k \in i..j : IsDigit(Char(s, k))
                /\ (j = Len(s) \/ ~IsWordChar(Char(s, j + 1)))

DefaultYears == 3
MatchingCap == 5
FallbackCap == 3
AchievementCap == 120
TitleMinLen == 4

\* the skills of the JD found in the resume text or in its skills list
MatchingTechSkills(tech_skills, resume_text, resume_skills_list) ==
    LET joined == Join(LowerAll(resume_skills_list), " ")
        Present(s) == Contains(Lower(s), resume_text) \/ Contains(Lower(s), joined)
    IN  Take(SelectSeq(tech_skills, Present), MatchingCap)

SummarySkills_NoFallback(tech_skills, resume_text, resume_skills_list) ==
    MatchingTechSkills(tech_skills, resume_text, resume_skills_list)

\* matching_tech_skills, with the fallback to tech_skills[:3] when none matches
SummarySkills(tech_skills, resume_text, resume_skills_list) ==
    LET matching == MatchingTechSkills(tech_skills, resume_text, resume_skills_list)
    IN  IF matching = <<>> THEN Take(tech_skills, FallbackCap) ELSE matching

\* the spelling of one skill in the summary
DisplaySkill(ts, resume_skills_list) ==
    LET same == {i \in 1..Len(resume_skills_list) : Lower(resume_skills_list[i]) = Lower(ts)}
        found_original == IF same = {} THEN "" ELSE resume_skills_list[SetMin(same)]
        low == Lower(ts)
    IN  IF found_original # "" THEN found_original
        ELSE IF low \in {"python", "react", "docker", "kubernetes", "ansible"}
             THEN Capitalize(ts)
        ELSE IF low \in {"aws", "api", "sql", "html", "css", "git", "ci/cd", "gcp"}
             THEN Upper(ts)
        ELSE IF low \in {"javascript", "typescript"} THEN Capitalize(ts)
        ELSE IF Len(ts) > TitleMinLen THEN Title(ts) ELSE Upper(ts)

SkillsString(matching_display, domain) ==
    IF Len(matching_display) >= 2
    THEN Join(SubSeq(matching_display, 1, Len(matching_display) - 1), ", ")
         \o ", and " \o matching_display[Len(matching_display)]
    ELSE IF Len(matching_display) = 1 THEN matching_display[1]
    ELSE domain

\* exp_phrase_map.get(experience_level, <the mid-level phrase>)
ExpPhrase(experience_level, years_exp) ==
    IF experience_level = "junior"
    THEN "with " \o ToString(Max(years_exp, 1)) \o "+ year"
         \o (IF years_exp # 1 THEN "s" ELSE "") \o " of hands-on experience"
    ELSE IF experience_level = "senior"
    THEN "with " \o ToString(Max(years_exp, 4)) \o "+ years of deep technical expertise"
    ELSE IF experience_level = "staff/principal"
    THEN "with " \o ToString(Max(years_exp, 6)) \o "+ years of industry-leading expertise"
    ELSE IF experience_level = "executive/director"
    THEN "with " \o ToString(Max(years_exp, 8))
         \o "+ years of strategic leadership experience"
    ELSE "with " \o ToString(Max(years_exp, 2)) \o "+ years of professional experience"

\* all bullets of all entries, in order
RECURSIVE AllBullets(_)
AllBullets(experience) ==
    IF experience = <<>> THEN <<>>
    ELSE Get(Head(experience), "bullets", <<>>) \o AllBullets(Tail(experience))

\* the first bullet with a metric, cut to 120 characters; "" when none
BestAchievement(experience) ==
    LET bullets == AllBullets(experience)
        hits == {i \in 1..Len(bullets) : HasMetric(bullets[i])}
    IN  IF hits = {} THEN "" ELSE Take(bullets[SetMin(hits)], AchievementCap)

\* domain_templates.get(domain, domain_templates["Software Engineering"]), each
\* template filled with soft, domain, exp and skills
SummaryTemplates(domain, soft, exp, skills) ==
    IF domain = "Data Science/ML"
    THEN <<soft \o " data professional " \o exp \o " specializing in " \o skills \o ". "
           \o "Proven ability to transform complex datasets into actionable insights "
           \o "and production-ready machine learning models. "
           \o "Experienced in building data pipelines, statistical modeling, and A/B testing.">>
    ELSE IF domain = "DevOps/Cloud"
    THEN <<soft \o " DevOps/Cloud engineer " \o exp \o " with expertise in " \o skills \o ". "
           \o "Proven record of building and maintaining reliable, scalable infrastructure "
           \o "using infrastructure-as-code and CI/CD best practices. "
           \o "Committed to improving deployment velocity and system observability.">>
    ELSE <<soft \o " software engineer " \o exp \o " specializing in " \o skills \o ". "
           \o "Proven track record of designing and delivering scalable, high-performance systems "
           \o "that align with business objectives. Expertise in full-stack development, "
           \o "cross-functional collaboration, and engineering best practices.",
           "Accomplished " \o domain \o " professional " \o exp \o " in " \o skills \o ". "
           \o "Demonstrated ability to architect and implement robust solutions across the SDLC, "
           \o "from requirements gathering to production deployment. "
           \o "Recognized for clean code practices, proactive problem-solving, "
           \o "and delivering measurable impact in agile environments.">>

\* rewrite_summary: every summary the call can return, one for each outcome
\* of random.choice(templates)
rewrite_summary(resume, jd) ==
    LET years_exp == Get(resume, "years_experience", DefaultYears)
        domain == Get(jd, "domain", "Technology")
        experience_level == Get(jd, "experience_level", "mid-level")
        tech_skills == Get(jd, "technical_skills", <<>>)
        soft_skills == Get(jd, "soft_skills", <<>>)
        resume_text == Lower(Get(resume, "full_text", ""))
        resume_skills_list == Get(resume, "skills", <<>>)
        matching == SummarySkills(tech_skills, resume_text, resume_skills_list)
        matching_display == [i \in 1..Len(matching) |->
                                DisplaySkill(matching[i], resume_skills_list)]
        skills_str == SkillsString(matching_display, domain)
        exp_phrase == ExpPhrase(experience_level, years_exp)
        best_achievement == BestAchievement(Get(resume, "experience", <<>>))
        selected_soft == IF soft_skills # <<>> THEN Capitalize(soft_skills[1])
                         ELSE "Results-driven"
        clean_achievement == RStripDots(Strip(best_achievement))
        Finish(summary) ==
            Strip(IF best_achievement # "" /\ HasDigit(clean_achievement)
                  THEN RStripDots(summary) \o ". Notable achievement: "
                       \o clean_achievement \o "."
                  ELSE summary)
    IN  {Finish(template) :
            template \in Range(SummaryTemplates(domain, selected_soft, exp_phrase, skills_str))}

(***************************************************************************)
(* compute_keyword_diff                                                    *)
(***************************************************************************)
KeywordCap == 15
KeywordMinLen == 3

SeenKey_Exact(kw) == kw

\* the key under which a keyword is remembered in seen
SeenKey(kw) == Lower(kw)

\* the keywords the loop looks at: not seen before and of at least 3 characters
RECURSIVE DistinctKeywords(_, _)
DistinctKeywords(kws, seen) ==
    IF kws = <<>> THEN <<>>
    ELSE IF SeenKey(Head(kws)) \in seen \/ Len(Head(kws)) < KeywordMinLen
         THEN DistinctKeywords(Tail(kws), seen)
    ELSE <<Head(kws)>> \o DistinctKeywords(Tail(kws), seen \cup {SeenKey(Head(kws))})

compute_keyword_diff_NoBefore(before_text, after_text, jd_keywords) ==
    LET kws == DistinctKeywords(jd_keywords, {})
        Added(kw) == Contains(Lower(kw), Lower(after_text))
    IN  [added |-> Take(SelectSeq(kws, Added), KeywordCap), already_had |-> <<>>]

compute_keyword_diff(before_text, after_text, jd_keywords) ==
    LET before_lower == Lower(before_text)
        after_lower == Lower(after_text)
        kws == DistinctKeywords(jd_keywords, {})
        Added(kw) == Contains(Lower(kw), after_lower) /\ ~Contains(Lower(kw), before_lower)
        Had(kw) == Contains(Lower(kw), after_lower) /\ Contains(Lower(kw), before_lower)
    IN  [added |-> Take(SelectSeq(kws, Added), KeywordCap),
         already_had |-> Take(SelectSeq(kws, Had), KeywordCap)]

(***************************************************************************)
(* optimize_experience and optimize_resume, statement by statement.        *)
(*                                                                         *)
(* resume_data and jd_analysis are the objects the caller handed in.  A    *)
(* local name either refers to a fresh object of the call or to a part of  *)
(* resume_data; optimized_entry carries the entry index it aliases (0 for  *)
(* a fresh dict), and an item assignment through an alias writes into      *)
(* resume_data.                                                            *)
(***************************************************************************)
JDSkillsCap == 12
JDKeywordsCap == 10

\* the keys the code reads by subscript, d[key], where a missing key raises
\* KeyError: optimizer.py reads the resume record, its experience entries
\* and the JD profile with d.get(key, default) only
SubscriptedKeys_FullText == {"full_text"}

SubscriptedKeys == {}

\* a read of dict d raises KeyError
Raises(d) == SubscriptedKeys \ DOMAIN d # {}

CopyEntry_Alias(entry, index) == [alias |-> index, value |-> entry]

\* optimized_entry = dict(entry): a new dict with the items of entry
CopyEntry(entry, index) == [alias |-> 0, value |-> entry]

IsBlankBullet_OrShort(bullet) == Len(Strip(bullet)) < ShortBulletLen

\* if not bullet.strip(): continue
IsBlankBullet(bullet) == Strip(bullet) = ""

\* d[key] = value
SetItem(d, key, value) == [k \in DOMAIN d \cup {key} |-> IF k = key THEN value ELSE d[k]]

\* the state of a call that has raised
Raise ==
    /\ pc' = "raised"
    /\ UNCHANGED <<passes, jd_text, resume_data, jd_analysis, result, optimized_text, pre_ats, new_summary,
                   optimized_skills, optimized_experience, used_keywords_global,
                   optimized_entry, optimized_bullets, ei, bi, log>>

\* 1. pre_ats = calculate_ats_score(resume_data, jd_analysis)
PreScore ==
    /\ pc = "start"
    /\ IF Raises(resume_data) THEN Raise
       ELSE /\ pre_ats' = calculate_ats_score(resume_data, jd_analysis)
            /\ pc' = "summary"
            /\ UNCHANGED <<passes, jd_text, resume_data, jd_analysis, result, optimized_text, new_summary,
                           optimized_skills, optimized_experience, used_keywords_global,
                           optimized_entry, optimized_bullets, ei, bi, log>>

\* 2. new_summary = rewrite_summary(resume_data, jd_analysis)
RewriteSummary ==
    /\ pc = "summary"
    /\ new_summary' \in rewrite_summary(resume_data, jd_analysis)
    /\ pc' = "skills"
    /\ UNCHANGED <<passes, jd_text, resume_data, jd_analysis, result, optimized_text, pre_ats,
                   optimized_skills, optimized_experience, used_keywords_global,
                   optimized_entry, optimized_bullets, ei, bi, log>>

\* 3. optimized_skills = optimize_skills_section(original_skills, jd_analysis)
OptimizeSkills ==
    /\ pc = "skills"
    /\ optimized_skills' =
          optimize_skills_section(Get(resume_data, "skills", <<>>), jd_analysis)
    /\ pc' = "experience"
    /\ UNCHANGED <<passes, jd_text, resume_data, jd_analysis, result, optimized_text, pre_ats, new_summary,
                   optimized_experience, used_keywords_global,
                   optimized_entry, optimized_bullets, ei, bi, log>>

\* 4. optimize_experience is entered: optimized_experience = [],
\*    used_keywords_global = []
BeginExperience ==
    /\ pc = "experience"
    /\ optimized_experience' = <<>>
    /\ used_keywords_global' = <<>>
    /\ ei' = 1
    /\ pc' = "entry"
    /\ UNCHANGED <<passes, jd_text, resume_data, jd_analysis, result, optimized_text, pre_ats, new_summary,
                   optimized_skills, optimized_entry, optimized_bullets, bi, log>>

\* the experience list the loop runs over
ExperienceList == Get(resume_data, "experience", <<>>)

\* for entry in experience_list: optimized_entry = dict(entry);
\* original_bullets = entry.get("bullets", []); optimized_bullets = []
BeginEntry ==
    /\ pc = "entry"
    /\ ei <= Len(ExperienceList)
    /\ IF Raises(ExperienceList[ei]) THEN Raise
       ELSE /\ optimized_entry' = CopyEntry(ExperienceList[ei], ei)
            /\ optimized_bullets' = <<>>
            /\ bi' = 1
            /\ pc' = "bullet"
            /\ UNCHANGED <<passes, jd_text, resume_data, jd_analysis, result, optimized_text, pre_ats,
                           new_summary, optimized_skills, optimized_experience,
                           used_keywords_global, ei, log>>

\* the list the inner loop runs over
OriginalBullets == Get(ExperienceList[ei], "bullets", <<>>)

\* for bullet in original_bullets: a whitespace bullet is skipped
SkipBullet ==
    /\ pc = "bullet"
    /\ bi <= Len(OriginalBullets)
    /\ IsBlankBullet(OriginalBullets[bi])
    /\ bi' = bi + 1
    /\ UNCHANGED <<passes, jd_text, pc, resume_data, jd_analysis, result, optimized_text, pre_ats,
                   new_summary, optimized_skills, optimized_experience,
                   used_keywords_global, optimized_entry, optimized_bullets, ei, log>>

\* enhanced = enhance_bullet(bullet, jd_keywords, jd_skills, used_keywords_global);
\* optimized_bullets.append(enhanced).  log records what the call did.
EnhanceBullet ==
    /\ pc = "bullet"
    /\ bi <= Len(OriginalBullets)
    /\ ~IsBlankBullet(OriginalBullets[bi])
    /\ LET jd_skills == Take(Get(jd_analysis, "technical_skills", <<>>), JDSkillsCap)
           jd_keywords == Take(Get(jd_analysis, "keywords", <<>>), JDKeywordsCap)
       IN  \E out \in enhance_bullet(OriginalBullets[bi], jd_keywords, jd_skills,
                                     used_keywords_global) :
              /\ optimized_bullets' = Append(optimized_bullets, out.bullet)
              /\ used_keywords_global' = out.used
              /\ log' = Append(log, [entry |-> ei, bullet |-> bi,
                                     input |-> OriginalBullets[bi],
                                     output |-> out.bullet,
                                     inserted |-> out.inserted])
    /\ bi' = bi + 1
    /\ UNCHANGED <<passes, jd_text, pc, resume_data, jd_analysis, result, optimized_text, pre_ats,
                   new_summary, optimized_skills, optimized_experience,
                   optimized_entry, ei>>

\* optimized_entry["bullets"] = optimized_bullets;
\* optimized_experience.append(optimized_entry)
EndEntry ==
    /\ pc = "bullet"
    /\ bi > Len(OriginalBullets)
    /\ LET written == SetItem(optimized_entry.value, "bullets", optimized_bullets)
       IN  /\ optimized_experience' = Append(optimized_experience, written)
           /\ resume_data' =
                 IF optimized_entry.alias = 0 THEN resume_data
                 ELSE [resume_data EXCEPT !["experience"][optimized_entry.alias] = written]
    /\ ei' = ei + 1
    /\ pc' = "entry"
    /\ UNCHANGED <<passes, jd_text, jd_analysis, result, optimized_text, pre_ats, new_summary,
                   optimized_skills, used_keywords_global, optimized_entry,
                   optimized_bullets, bi, log>>

\* 5. optimized_data
OptimizedData ==
    [name |-> Get(resume_data, "name", ""),
     contact |-> Get(resume_data, "contact", EmptyDict),
     summary |-> new_summary,
     skills |-> optimized_skills,
     experience |-> optimized_experience,
     experience_raw |-> Get(resume_data, "experience_raw", ""),
     education |-> Get(resume_data, "education", ""),
     projects |-> Get(resume_data, "projects", ""),
     certifications |-> Get(resume_data, "certifications", ""),
     raw_sections |-> Get(resume_data, "raw_sections", EmptyDict),
     jd_title |-> Get(jd_analysis, "job_title", ""),
     domain |-> Get(jd_analysis, "domain", "")]

\* 6. ' '.join([new_summary, ' '.join(optimized_skills)] + <all bullets>).lower()
OptimizedText ==
    Lower(Join(<<new_summary, Join(optimized_skills, " ")>>
               \o AllBullets(optimized_experience), " "))

TempFullText_OptimizedOnly(text, original_text) == text

\* temp_data["full_text"] = optimized_text + " " + original_text
TempFullText(text, original_text) == text \o " " \o original_text

\* 5.-7. and the return of optimize_resume, once the loop over the entries is over
Finish ==
    /\ pc = "entry"
    /\ ei > Len(ExperienceList)
    /\ IF Raises(resume_data) \/ Raises(jd_analysis) THEN Raise
       ELSE LET original_text == Get(resume_data, "full_text", "")
                text == OptimizedText
                temp_data == SetItem(SetItem(SetItem(OptimizedData,
                                 "full_text", TempFullText(text, original_text)),
                                 "raw_sections", Get(resume_data, "raw_sections", EmptyDict)),
                                 "contact", Get(resume_data, "contact", EmptyDict))
                post_ats == calculate_ats_score(temp_data, jd_analysis)
                kw_diff == compute_keyword_diff(original_text, text,
                              Get(jd_analysis, "technical_skills", <<>>)
                              \o Get(jd_analysis, "keywords", <<>>))
            IN  /\ optimized_text' = text
                /\ result' = [optimized |-> OptimizedData,
                              ats |-> [before |-> pre_ats.total,
                                       after |-> post_ats.total,
                                       grade |-> post_ats.grade,
                                       breakdown |-> post_ats.breakdown],
                              keywords_added |-> kw_diff.added,
                              keywords_existing |-> kw_diff.already_had,
                              jd_analysis |-> jd_analysis]
                /\ pc' = "done"
                /\ UNCHANGED <<passes, jd_text, resume_data, jd_analysis, pre_ats, new_summary,
                               optimized_skills, optimized_experience,
                               used_keywords_global, optimized_entry, optimized_bullets,
                               ei, bi, log>>

Next ==
    \/ PreScore
    \/ RewriteSummary
    \/ OptimizeSkills
    \/ BeginExperience
    \/ BeginEntry
    \/ SkipBullet
    \/ EnhanceBullet
    \/ EndEntry
    \/ Finish

(***************************************************************************)
(* Bounded inputs of optimize_resume                                       *)
(***************************************************************************)
MaxEntries == 2

BulletWrote == "Wrote unit tests for the checkout API"
BulletBuild == "Configured the build pipeline for releases"
BulletAlert == "Configured alerting for the cloud platform."
BulletBlank == "   "
BulletShort == "Led"
BulletWeak == "Was responsible for managing a team of 5 engineers"

Entries ==
    {[company |-> "Acme", bullets |-> <<BulletBuild, BulletBlank, BulletAlert>>],
     [company |-> "Beta", bullets |-> <<BulletShort, BulletWeak>>],
     [company |-> "Gamma", bullets |-> <<BulletWrote>>],
     [company |-> "Delta"]}

\* the text of the resume file: name, summary, skills and bullets
FullText(skills, experience) ==
    Join(<<"Ann Lee", "Platform engineer.", Join(skills, " ")>> \o AllBullets(experience), " ")

ResumeOf(experience) ==
    [name |-> "Ann Lee",
     contact |-> [email |-> "ann@example.com"],
     summary |-> "Platform engineer.",
     skills |-> <<"Python", "Docker">>,
     experience |-> experience,
     raw_sections |-> [summary |-> "x", skills |-> "x", experience |-> "x"],
     full_text |-> FullText(<<"Python", "Docker">>, experience),
     years_experience |-> 4]

JDOf(technical_skills) ==
    [job_title |-> "Platform Engineer",
     domain |-> "DevOps/Cloud",
     experience_level |-> "senior",
     technical_skills |-> technical_skills,
     soft_skills |-> <<"leadership">>,
     keywords |-> <<"pipeline", "Docker", "reliability">>]

\* the profile of a JD that names no known skill: keywords only
JDWithoutSkills ==
    [JDOf(<<>>) EXCEPT !.keywords = <<"platform", "engineer">>, !.soft_skills = <<>>]

JDSkillLists ==
    {<<>>, <<"Kubernetes">>, <<"Docker", "docker">>, <<"Git", "Terraform", "React", "Terraform">>,
     <<"Go", "Python", "SQL">>}

Init ==
    /\ pc = "start"
    /\ resume_data \in {ResumeOf(e) : e \in SeqsUpTo(Entries, MaxEntries)}
    /\ jd_analysis \in {JDOf(ts) : ts \in JDSkillLists} \cup {EmptyDict, JDWithoutSkills}
    /\ result = EmptyDict
    /\ LocalsIdle

Spec == Init /\ [][Next]_vars

(***************************************************************************)
(* optimize_resume on records with optional parts missing                  *)
(***************************************************************************)
OptionalKeys ==
    {"contact", "summary", "skills", "experience", "raw_sections", "full_text",
     "years_experience"}

\* the record d without the keys in K
Without(d, K) == [k \in DOMAIN d \ K |-> d[k]]

FullExperience ==
    <<[company |-> "Acme", bullets |-> <<BulletBuild, BulletBlank, BulletShort>>],
      [company |-> "Gamma", bullets |-> <<BulletWrote>>]>>

\* the same entries with no bullets key
BareExperience == <<[company |-> "Acme"], [company |-> "Gamma"]>>

OptionalResumes ==
    {Without(r, K) :
        r \in {ResumeOf(FullExperience),
               ResumeOf(BareExperience),
               SetItem(ResumeOf(FullExperience), "contact", [phone |-> "1"])},
        K \in SUBSET OptionalKeys}

InitOptional ==
    /\ pc = "start"
    /\ resume_data \in OptionalResumes
    /\ jd_analysis \in {JDOf(<<"Kubernetes", "python">>), EmptyDict}
    /\ result = EmptyDict
    /\ LocalsIdle

SpecOptional == InitOptional /\ [][Next]_vars

(***************************************************************************)
(* Bounded inputs of compute_keyword_diff, called as optimize_resume calls *)
(* it: before = the original text, after = the optimized text, keywords =  *)
(* the JD technical skills followed by the JD keywords                     *)
(***************************************************************************)
MaxDiffSkills == 22

\* the programming languages of the taxonomy, in its order
DiffSkillBase == SKILLS_DB[1].skills

DiffKeywordLists ==
    {<<>>, <<"Python", "java", "JAVA">>, <<"Go", "agile", "Agile", "agile">>}

DiffBeforeTexts == {"", "Agile team; Python and Java services, shell scripts."}

DiffAfterTexts ==
    {"", Join(DiffSkillBase, " ") \o " AGILE", "python, java and ruby on an agile team"}

InitDiff ==
    /\ pc = "call"
    /\ resume_data \in {[full_text |-> t] : t \in DiffBeforeTexts} \cup {EmptyDict}
    /\ jd_analysis \in {[technical_skills |-> Take(DiffSkillBase, n), keywords |-> ks] :
                           n \in 0..MaxDiffSkills, ks \in DiffKeywordLists}
    /\ result = EmptyDict
    /\ optimized_text \in DiffAfterTexts
    /\ pre_ats = EmptyDict
    /\ new_summary = ""
    /\ optimized_skills = <<>>
    /\ optimized_experience = <<>>
    /\ used_keywords_global = <<>>
    /\ optimized_entry = EmptyDict
    /\ optimized_bullets = <<>>
    /\ ei = 0
    /\ bi = 0
    /\ log = <<>>
    /\ jd_text = ""
    /\ passes = <<>>

CallDiff ==
    /\ pc = "call"
    /\ result' = compute_keyword_diff(Get(resume_data, "full_text", ""), optimized_text,
                                      Get(jd_analysis, "technical_skills", <<>>)
                                      \o Get(jd_analysis, "keywords", <<>>))
    /\ pc' = "done"
    /\ UNCHANGED <<resume_data, jd_analysis, locals>>

NextDiff == CallDiff

SpecDiff == InitDiff /\ [][NextDiff]_vars

(***************************************************************************)
(* JD analyzer: src/backend/jd_analyzer.py.  The regular expressions are   *)
(* modelled by what re.search returns for them: the leftmost match, greedy *)
(* and lazy quantifiers, and the backtracking that decides the groups.     *)
(***************************************************************************)
STOPWORDS ==
    {"a", "an", "the", "and", "or", "but", "in", "on", "at", "to", "for", "of", "with",
     "by", "from", "as", "is", "was", "are", "were", "be", "been", "being", "have",
     "has", "had", "do", "does", "did", "will", "would", "could", "should", "may",
     "might", "must", "shall", "can", "our", "your", "their", "its", "we", "you",
     "they", "he", "she", "it", "this", "that", "these", "those", "i", "me", "my", "us",
     "him", "her", "who", "what", "which", "when", "where", "how", "why", "all", "any",
     "both", "each", "few", "more", "most", "other", "some", "such", "no", "not",
     "only", "own", "same", "than", "too", "very", "just", "about", "above", "after",
     "against", "also", "between", "during", "into", "through", "while", "within",
     "without", "including", "across"}

EXPERIENCE_LEVELS ==
    <<[level |-> "entry",
      keywords |-> <<"entry level", "entry-level", "junior", "0-1 year", "0-2 year", "fresh graduate",
                     "recent graduate", "new grad", "trainee", "intern">>],
     [level |-> "mid",
      keywords |-> <<"mid level", "mid-level", "2-4 year", "2-5 year", "3-5 year", "associate",
                     "intermediate">>],
     [level |-> "senior",
      keywords |-> <<"senior", "sr.", "lead", "5+ year", "5-7 year", "7+ year", "principal", "staff",
                     "expert", "advanced">>],
     [level |-> "executive",
      keywords |-> <<"director", "vp", "vice president", "cto", "ceo", "head of", "chief", "executive",
                     "c-level", "manager">>]>>

level_map ==
    "entry" :> "junior" @@ "mid" :> "mid-level" @@ "senior" :> "senior" @@ "executive" :> "executive/director"

domain_keywords ==
    <<[domain |-> "Software Engineering",
      keywords |-> <<"software engineer", "software developer", "backend", "frontend", "full stack",
                     "fullstack", "web developer", "api", "microservices">>],
     [domain |-> "Data Science/ML",
      keywords |-> <<"data scientist", "machine learning", "deep learning", "ml engineer", "ai engineer",
                     "data engineer", "analytics">>],
     [domain |-> "DevOps/Cloud",
      keywords |-> <<"devops", "cloud", "infrastructure", "kubernetes", "ci/cd", "site reliability", "sre",
                     "platform engineer">>],
     [domain |-> "Product Management",
      keywords |-> <<"product manager", "product owner", "roadmap", "go-to-market", "stakeholder",
                     "product strategy">>],
     [domain |-> "Cybersecurity",
      keywords |-> <<"security", "cybersecurity", "penetration", "compliance", "soc", "siem">>],
     [domain |-> "Finance/Fintech",
      keywords |-> <<"financial", "banking", "fintech", "trading", "risk", "compliance">>],
     [domain |-> "Design/UX",
      keywords |-> <<"ux", "ui", "design", "figma", "user research", "product design">>],
     [domain |-> "Marketing",
      keywords |-> <<"marketing", "seo", "growth", "campaigns", "analytics", "brand">>],
     [domain |-> "Data Engineering",
      keywords |-> <<"data pipeline", "etl", "data warehouse", "spark", "airflow", "kafka">>]>>

jd_verbs ==
    <<"design", "develop", "build", "create", "implement", "deploy", "manage", "lead",
      "collaborate", "analyze", "optimize", "maintain", "architect", "establish",
      "drive", "deliver", "scale", "improve", "integrate", "automate", "monitor",
      "troubleshoot", "review">>

\* re.search(r'\b' + re.escape(w) + r'\b', s)
SearchWord(w, s) ==
    \E i \in 1..(Len(s) - Len(w) + 1) :
        StartsAt(s, i, w) /\ WordBoundary(s, i) /\ WordBoundary(s, i + Len(w))

\* the orders in which a Python set can be listed
RECURSIVE Orderings(_)
Orderings(S) ==
    IF S = {} THEN {<<>>}
    ELSE UNION {{<<x>> \o f : f \in Orderings(S \ {x})} : x \in S}

\* extract_skills_from_text: category -> the skills of the category found
\* in the text, in taxonomy order; a category without a match has no key
extract_skills_from_text(text) ==
    LET text_lower == Lower(text)
        matched == [c \in 1..Len(SKILLS_DB) |->
                       SelectSeq(SKILLS_DB[c].skills,
                                 LAMBDA skill : SearchWord(Lower(skill), text_lower))]
        found == {c \in 1..Len(SKILLS_DB) : matched[c] # <<>>}
    IN  [category \in {SKILLS_DB[c].category : c \in found} |->
            matched[CHOOSE c \in found : SKILLS_DB[c].category = category]]

\* the last index of the run of digits that holds index i
DigitRunEnd(s, i) == SetMin({j \in i..Len(s) : ~IsDigit(Char(s, j))} \cup {Len(s) + 1}) - 1

\* int(s) for a string of digits
RECURSIVE ParseInt(_)
ParseInt(s) ==
    IF s = "" THEN 0
    ELSE 10 * ParseInt(SubSeq(s, 1, Len(s) - 1)) + (CharIndex(Digits, Char(s, Len(s))) - 1)

\* s has character c at index i
CharAt(s, i, c) == i >= 1 /\ i <= Len(s) /\ Char(s, i) = c

\* \s*years? matches at index i
YearsAt(s, i) == StartsAt(s, NextNonSpace(s, i), "year")

\* \s+years? matches at index i
SpacedYearsAt(s, i) == i <= Len(s) /\ IsSpace(Char(s, i)) /\ YearsAt(s, i)

\* (\d+)\+?\s*(?:to|-)\s*(\d+)\s*years? matched from index i: <<group 2>>, or <<>>
RangeAt(s, i) ==
    IF ~(i <= Len(s) /\ IsDigit(Char(s, i))) THEN <<>>
    ELSE LET a == DigitRunEnd(s, i) + 1
             b == NextNonSpace(s, IF CharAt(s, a, "+") THEN a + 1 ELSE a)
             c == IF StartsAt(s, b, "to") THEN b + 2
                  ELSE IF StartsAt(s, b, "-") THEN b + 1 ELSE 0
             d == NextNonSpace(s, c)
         IN  IF c # 0 /\ d <= Len(s) /\ IsDigit(Char(s, d)) /\ YearsAt(s, DigitRunEnd(s, d) + 1)
             THEN <<SubSeq(s, d, DigitRunEnd(s, d))>>
             ELSE <<>>

\* (\d+)\+\s*years? matched from index i: <<group 1>>, or <<>>
PlusAt(s, i) ==
    IF ~(i <= Len(s) /\ IsDigit(Char(s, i))) THEN <<>>
    ELSE LET a == DigitRunEnd(s, i) + 1
         IN  IF CharAt(s, a, "+") /\ YearsAt(s, a + 1)
             THEN <<SubSeq(s, i, a - 1)>>
             ELSE <<>>

\* \s+(\d+)\s+years? matched from index i: <<group 1>>, or <<>>
SpacedNumberAt(s, i) ==
    IF ~(i <= Len(s) /\ IsSpace(Char(s, i))) THEN <<>>
    ELSE LET d == NextNonSpace(s, i)
         IN  IF d <= Len(s) /\ IsDigit(Char(s, d)) /\ SpacedYearsAt(s, DigitRunEnd(s, d) + 1)
             THEN <<SubSeq(s, d, DigitRunEnd(s, d))>>
             ELSE <<>>

\* minimum\s+(\d+)\s+years? matched from index i
MinimumAt(s, i) ==
    IF StartsAt(s, i, "minimum") THEN SpacedNumberAt(s, i + Len("minimum")) ELSE <<>>

\* at\s+least\s+(\d+)\s+years? matched from index i
AtLeastAt(s, i) ==
    IF StartsAt(s, i, "at") /\ i + 2 <= Len(s) /\ IsSpace(Char(s, i + 2))
          /\ StartsAt(s, NextNonSpace(s, i + 2), "least")
    THEN SpacedNumberAt(s, NextNonSpace(s, i + 2) + Len("least"))
    ELSE <<>>

\* year_patterns, in the order the loop tries them
year_patterns_Reversed == <<"atleast", "min", "plus", "range">>

\* the pattern types of year_patterns, in list order
year_patterns == <<"range", "plus", "min", "atleast">>

YearPatternAt(p, s, i) ==
    CASE year_patterns[p] = "range" -> RangeAt(s, i)
      [] year_patterns[p] = "plus" -> PlusAt(s, i)
      [] year_patterns[p] = "min" -> MinimumAt(s, i)
      [] year_patterns[p] = "atleast" -> AtLeastAt(s, i)

\* re.search(pattern, s): the group of the leftmost match, or <<>>
SearchYears(p, s) ==
    LET hits == {i \in 1..Len(s) : YearPatternAt(p, s, i) # <<>>}
    IN  IF hits = {} THEN <<>> ELSE YearPatternAt(p, s, SetMin(hits))

JuniorYears == 2
MidYears == 5
SeniorYears == 8

LevelOfYears(years) ==
    IF years <= JuniorYears THEN "junior"
    ELSE IF years <= MidYears THEN "mid-level"
    ELSE IF years <= SeniorYears THEN "senior"
    ELSE "staff/principal"

extract_experience_level(text) ==
    LET text_lower == Lower(text)
        matching == {p \in 1..Len(year_patterns) : SearchYears(p, text_lower) # <<>>}
        levels == {l \in 1..Len(EXPERIENCE_LEVELS) :
                      AnyIn(EXPERIENCE_LEVELS[l].keywords, text_lower)}
    IN  IF matching # {}
        THEN LevelOfYears(ParseInt(SearchYears(SetMin(matching), text_lower)[1]))
        ELSE IF levels # {}
        THEN level_map[EXPERIENCE_LEVELS[SetMin(levels)].level]
        ELSE "mid-level"

ActionVerbCap == 20

\* extract_action_verbs: the lists the call can return, one for each order
\* in which the set of found verbs is listed
extract_action_verbs(text) ==
    LET text_lower == Lower(text)
        all_verbs == UNION {Range(LowerAll(STRONG_VERBS[c])) : c \in DOMAIN STRONG_VERBS}
                     \cup Range(jd_verbs)
        found == {Capitalize(verb) : verb \in {v \in all_verbs : SearchWord(v, text_lower)}}
    IN  {Take(f, ActionVerbCap) : f \in Orderings(found)}

\* extract_soft_skills
extract_soft_skills(text) ==
    LET text_lower == Lower(text)
        soft == {c \in 1..Len(SKILLS_DB) : SKILLS_DB[c].category = "soft_skills"}
        soft_skills == IF soft = {} THEN <<>> ELSE SKILLS_DB[CHOOSE c \in soft : TRUE].skills
    IN  SelectSeq(soft_skills, LAMBDA skill : SearchWord(skill, text_lower))

detect_industry_domain_LastOfTie(text) ==
    LET text_lower == Lower(text)
        scores == [d \in 1..Len(domain_keywords) |->
                      Cardinality({k \in 1..Len(domain_keywords[d].keywords) :
                                      Contains(domain_keywords[d].keywords[k], text_lower)})]
        hit == {d \in 1..Len(domain_keywords) : scores[d] > 0}
        best == {d \in hit : \A e \in hit : scores[e] <= scores[d]}
    IN  IF hit = {} THEN "Technology" ELSE domain_keywords[SetMax(best)].domain

\* detect_industry_domain: the first domain of the table with the most hits
detect_industry_domain(text) ==
    LET text_lower == Lower(text)
        scores == [d \in 1..Len(domain_keywords) |->
                      Cardinality({k \in 1..Len(domain_keywords[d].keywords) :
                                      Contains(domain_keywords[d].keywords[k], text_lower)})]
        hit == {d \in 1..Len(domain_keywords) : scores[d] > 0}
        best == {d \in hit : \A e \in hit : scores[e] <= scores[d]}
    IN  IF hit = {} THEN "Technology" ELSE domain_keywords[SetMin(best)].domain

\* re.sub(r'[^\w\s\-\+\#\.]', ' ', s), by halves
RECURSIVE BlankPunctuation(_)
BlankPunctuation(s) ==
    IF Len(s) = 0 THEN ""
    ELSE IF Len(s) = 1
         THEN IF IsWordChar(s) \/ IsSpace(s) \/ s \in {"-", "+", "#", "."} THEN s ELSE " "
    ELSE BlankPunctuation(SubSeq(s, 1, Len(s) \div 2))
         \o BlankPunctuation(SubSeq(s, Len(s) \div 2 + 1, Len(s)))

\* clean_text: lower case, punctuation blanked, runs of whitespace collapsed
\* to one space, trimmed
clean_text(text) == Join(Split(BlankPunctuation(Lower(text))), " ")

TokenEdgeChars == {".", ",", ";", ":", "(", ")", "[", "]", "{", "}"}

\* w.strip('.,;:()[]{}')
StripEdges(w) ==
    LET keep == {i \in 1..Len(w) : Char(w, i) \notin TokenEdgeChars}
    IN  IF keep = {} THEN "" ELSE SubSeq(w, SetMin(keep), SetMax(keep))

\* tokenize
tokenize(text) ==
    LET words == Split(Lower(text))
        stripped == [i \in 1..Len(words) |-> StripEdges(words[i])]
    IN  SelectSeq(stripped, LAMBDA w : w # "")

CorpusSize == 100
TfidfMinLen == 2
KeywordWordMinLen == 3
TopKeywords == 25

RECURSIVE Pow(_, _)
Pow(b, e) == IF e = 0 THEN 1 ELSE b * Pow(b, e - 1)

\* the tf-idf score of a word that occurs c1 times is greater than that of
\* a word that occurs c2 times: c/total * log(CorpusSize / (1 + c)) with the
\* same total, compared exactly as (CorpusSize / (1 + c)) ^ c
ScoreGreater(c1, c2) ==
    IF c1 = c2 THEN FALSE
    ELSE IF c1 > c2
         THEN Pow(CorpusSize, c1 - c2) * Pow(1 + c2, c2) > Pow(1 + c1, c1)
    ELSE Pow(1 + c2, c2) > Pow(CorpusSize, c2 - c1) * Pow(1 + c1, c1)

\* the first occurrences of the entries of xs, in order
RECURSIVE FirstOccurrences(_, _)
FirstOccurrences(xs, seen) ==
    IF xs = <<>> THEN <<>>
    ELSE IF Head(xs) \in seen THEN FirstOccurrences(Tail(xs), seen)
    ELSE <<Head(xs)>> \o FirstOccurrences(Tail(xs), seen \cup {Head(xs)})

\* extract_top_keywords(text, top_n = 25): the words of compute_tfidf of more
\* than 3 characters, by falling score, equal scores in order of first
\* occurrence
extract_top_keywords(text) ==
    LET tokens == tokenize(clean_text(text))
        filtered == SelectSeq(tokens, LAMBDA t : t \notin STOPWORDS /\ Len(t) > TfidfMinLen)
        tf == [w \in Range(filtered) |->
                  Cardinality({i \in 1..Len(filtered) : filtered[i] = w})]
        words == SelectSeq(FirstOccurrences(filtered, {}),
                           LAMBDA w : w \notin STOPWORDS /\ Len(w) > KeywordWordMinLen)
        Before(i, j) == ScoreGreater(tf[words[i]], tf[words[j]])
                        \/ (tf[words[i]] = tf[words[j]] /\ i < j)
        place == [i \in 1..Len(words) |->
                     1 + Cardinality({j \in 1..Len(words) : Before(j, i)})]
        sorted_kw == [k \in 1..Len(words) |->
                         words[CHOOSE i \in 1..Len(words) : place[i] = k]]
    IN  Take(sorted_kw, TopKeywords)

\* pattern, in which "." stands for any character (newline too when dotall),
\* matches s at index i without regard to case
StartsAtPattern(s, i, pattern, dotall) ==
    /\ i + Len(pattern) - 1 <= Len(s)
    /\ \A k \in 1..Len(pattern) :
          IF Char(pattern, k) = "."
          THEN dotall \/ Char(s, i + k - 1) # "\n"
          ELSE LowerChar(Char(s, i + k - 1)) = Char(pattern, k)

resp_patterns ==
    <<"responsibilities", "what you.ll do", "role responsibilities", "key responsibilities",
      "duties", "your role", "job duties", "what we.re looking for you to do">>

req_patterns ==
    <<"requirements", "qualifications", "what you.ll need", "what we need",
      "skills required", "required skills", "minimum qualifications", "you have">>

SectionCap2000 == 2000

\* re.search('(?:h1|h2|...)(.*?)(?=\n[A-Z]|\Z)', s, DOTALL | IGNORECASE)
\* followed by m.group(1).strip()[:2000]; "" when no heading occurs
SectionAfter(headings, s) ==
    LET Heading(i) == {h \in 1..Len(headings) : StartsAtPattern(s, i, headings[h], TRUE)}
        starts == {i \in 1..Len(s) : Heading(i) # {}}
    IN  IF starts = {} THEN ""
        ELSE LET i == SetMin(starts)
                 from == i + Len(headings[SetMin(Heading(i))])
                 stop == SetMin({p \in from..(Len(s) - 1) :
                                    Char(s, p) = "\n" /\ IsLetter(Char(s, p + 1))}
                                \cup {Len(s) + 1})
             IN  Take(Strip(SubSeq(s, from, stop - 1)), SectionCap2000)

\* extract_requirements_sections
extract_requirements_sections(text) ==
    [responsibilities |-> SectionAfter(resp_patterns, Lower(text)),
     requirements |-> SectionAfter(req_patterns, Lower(text)),
     nice_to_have |-> "",
     about_company |-> ""]

\* the headings of the first title pattern; colon: the heading ends in ":?"
title_headings ==
    <<[text |-> "we.re looking for", colon |-> FALSE],
      [text |-> "hiring a", colon |-> FALSE],
      [text |-> "seeking a", colon |-> FALSE],
      [text |-> "position", colon |-> TRUE],
      [text |-> "role", colon |-> TRUE],
      [text |-> "job title", colon |-> TRUE]>>

title_roles ==
    <<"engineer", "developer", "manager", "analyst", "designer", "scientist", "architect">>

\* [^\n,\.]
InTitleClass(c) == c \notin {"\n", ",", "."}

\* the last index of the run of [^\n,\.] characters that starts at index i
TitleRunEnd(s, i) ==
    SetMin({j \in i..Len(s) : ~InTitleClass(Char(s, j))} \cup {Len(s) + 1}) - 1

\* heading\s*([^\n,\.]+) matched from index i: <<group 1>>, or <<>>.  The
\* greedy \s* gives whitespace back, and then ":?" its colon, until the group
\* has a character.
TitleHeadingAt(s, i, heading) ==
    IF ~StartsAtPattern(s, i, heading.text, FALSE) THEN <<>>
    ELSE LET a == i + Len(heading.text)
             has_colon == heading.colon /\ CharAt(s, a, ":")
             b == IF has_colon THEN a + 1 ELSE a
             c == NextNonSpace(s, b)
             back == {j \in b..(c - 1) : Char(s, j) # "\n"}
         IN  IF c <= Len(s) /\ InTitleClass(Char(s, c))
             THEN <<SubSeq(s, c, TitleRunEnd(s, c))>>
             ELSE IF back # {}
             THEN <<SubSeq(s, SetMax(back), TitleRunEnd(s, SetMax(back)))>>
             ELSE IF has_colon
             THEN <<SubSeq(s, a, TitleRunEnd(s, a))>>
             ELSE <<>>

\* re.search of the first title pattern: the group of the leftmost match
SearchTitleHeading(s) ==
    LET Matching(i) == {h \in 1..Len(title_headings) :
                           TitleHeadingAt(s, i, title_headings[h]) # <<>>}
        starts == {i \in 1..Len(s) : Matching(i) # {}}
    IN  IF starts = {} THEN <<>>
        ELSE TitleHeadingAt(s, SetMin(starts),
                            title_headings[SetMin(Matching(SetMin(starts)))])

\* ^([A-Z][a-zA-Z\s]+(?:engineer|...)) matched at the line start i:
\* <<group 1>>, or <<>>.  The greedy run takes every letter and whitespace
\* character and gives back until a role word follows.
TitleLineAt(s, i) ==
    IF ~(i <= Len(s) /\ IsLetter(Char(s, i))) THEN <<>>
    ELSE LET run_end == SetMin({j \in (i + 1)..Len(s) :
                                   ~(IsLetter(Char(s, j)) \/ IsSpace(Char(s, j)))}
                               \cup {Len(s) + 1}) - 1
             Role(p) == {r \in 1..Len(title_roles) :
                            StartsAtPattern(s, p, title_roles[r], FALSE)}
             role_at == {p \in (i + 2)..run_end : Role(p) # {}}
         IN  IF role_at = {} THEN <<>>
             ELSE <<SubSeq(s, i, SetMax(role_at)
                                 + Len(title_roles[SetMin(Role(SetMax(role_at)))]) - 1)>>

\* re.search of the second title pattern with MULTILINE
SearchTitleLine(s) ==
    LET line_starts == {1} \cup {i + 1 : i \in {j \in 1..Len(s) : Char(s, j) = "\n"}}
        starts == {i \in line_starts : TitleLineAt(s, i) # <<>>}
    IN  IF starts = {} THEN <<>> ELSE TitleLineAt(s, SetMin(starts))

TitleCap == 60
FirstLineMax == 80

\* s.split('\n')[0]
FirstLine(s) == SubSeq(s, 1, SetMin({i \in 1..Len(s) : Char(s, i) = "\n"} \cup {Len(s) + 1}) - 1)

\* the job title analyze_jd extracts
JobTitle(text) ==
    LET by_heading == SearchTitleHeading(text)
        by_line == SearchTitleLine(text)
        found == IF by_heading # <<>> THEN Take(Strip(by_heading[1]), TitleCap)
                 ELSE IF by_line # <<>> THEN Take(Strip(by_line[1]), TitleCap)
                 ELSE ""
        first_line == FirstLine(Strip(text))
    IN  IF found # "" THEN found
        ELSE IF Len(first_line) < FirstLineMax THEN Strip(first_line)
        ELSE ""

MinJDLength == 50

TechSkillsCap == 30
SoftSkillsCap == 10

TooShort_Untrimmed(text) == text = "" \/ Len(text) < MinJDLength

\* if not text or len(text.strip()) < 50
TooShort(text) == text = "" \/ Len(Strip(text)) < MinJDLength

\* analyze_jd: the set of values the call can return, one for each order in
\* which the sets of technical skills and of action verbs are listed
analyze_jd(text) ==
    IF TooShort(text) THEN {EmptyDict}
    ELSE LET skills == extract_skills_from_text(text)
             all_tech_skills ==
                 UNION {Range(skills[cat]) : cat \in DOMAIN skills \ {"soft_skills"}}
         IN  {[job_title |-> JobTitle(text),
               domain |-> detect_industry_domain(text),
               experience_level |-> extract_experience_level(text),
               technical_skills |-> Take(technical_skills, TechSkillsCap),
               soft_skills |-> Take(extract_soft_skills(text), SoftSkillsCap),
               keywords |-> extract_top_keywords(text),
               action_verbs |-> action_verbs,
               skills_by_category |-> skills,
               sections |-> extract_requirements_sections(text),
               raw_text |-> text] :
                 technical_skills \in Orderings(all_tech_skills),
                 action_verbs \in extract_action_verbs(text)}

(***************************************************************************)
(* Bounded inputs of analyze_jd: the first characters of a JD, around the  *)
(* length the gate tests, between leading and trailing whitespace          *)
(***************************************************************************)
MaxPad == 2
MaxSlack == 3

JDBodies ==
    {"We're looking for a Senior Backend Engineer to design and build APIs with Python.",
     "Platform Engineer\nResponsibilities\nmaintain kubernetes clusters\nYou have 3-5 years",
     "data analyst wanted, minimum 2 years; sql and excel; teamwork and communication"}

PadChars == " \n\t "

\* k whitespace characters
RECURSIVE Pad(_)
Pad(k) == IF k = 0 THEN "" ELSE Pad(k - 1) \o Char(PadChars, ((k - 1) % Len(PadChars)) + 1)

JDTexts ==
    {Pad(lead) \o SubSeq(body, 1, n) \o Pad(trail) :
        body \in JDBodies,
        n \in {0} \cup (MinJDLength - MaxSlack)..(MinJDLength + MaxSlack),
        lead \in 0..MaxPad,
        trail \in 0..MaxPad}
    \cup JDBodies

InitAnalyze ==
    /\ pc = "call"
    /\ resume_data = EmptyDict
    /\ jd_analysis = EmptyDict
    /\ result = EmptyDict
    /\ optimized_text = ""
    /\ pre_ats = EmptyDict
    /\ new_summary = ""
    /\ optimized_skills = <<>>
    /\ optimized_experience = <<>>
    /\ used_keywords_global = <<>>
    /\ optimized_entry = EmptyDict
    /\ optimized_bullets = <<>>
    /\ ei = 0
    /\ bi = 0
    /\ log = <<>>
    /\ jd_text \in JDTexts
    /\ passes = <<>>

CallAnalyze ==
    /\ pc = "call"
    /\ result' \in analyze_jd(jd_text)
    /\ pc' = "done"
    /\ UNCHANGED <<resume_data, jd_analysis, locals>>

NextAnalyze == CallAnalyze

SpecAnalyze == InitAnalyze /\ [][NextAnalyze]_vars

(***************************************************************************)
(* Two optimize_experience calls running interleaved.  Each call has its   *)
(* own frame: its arguments, its locals and its position.  A step of the   *)
(* specification is one statement of one call.                             *)
(***************************************************************************)
Passes == {1, 2}

UsedListOwner_Shared(p) == 1

\* used_keywords_global: List[str] = [] is a local of the call, so the
\* list call p reads and appends to is the one in its own frame
UsedListOwner(p) == p

\* the list object call p hands to enhance_bullet
UsedList(p) == passes[UsedListOwner(p)].used_keywords_global

\* the frame of a call that has not executed a statement yet
NewFrame(experience_list, jd) ==
    [pc |-> "call",
     experience_list |-> experience_list,
     jd_analysis |-> jd,
     jd_skills |-> <<>>,
     jd_keywords |-> <<>>,
     optimized_experience |-> <<>>,
     used_keywords_global |-> <<>>,
     optimized_entry |-> EmptyDict,
     optimized_bullets |-> <<>>,
     ei |-> 0,
     bi |-> 0,
     log |-> <<>>]

\* a step of a pass changes the frames only
PassFrameOnly ==
    UNCHANGED <<pc, resume_data, jd_analysis, result, optimized_text, pre_ats,
                new_summary, optimized_skills, optimized_experience,
                used_keywords_global, optimized_entry, optimized_bullets, ei, bi, log,
                jd_text>>

\* jd_skills = ...[:12]; jd_keywords = ...[:10]; optimized_experience = [];
\* used_keywords_global = []
PassBegin(p) ==
    /\ PassFrameOnly
    /\ passes[p].pc = "call"
    /\ passes' = [passes EXCEPT
          ![p].jd_skills = Take(Get(passes[p].jd_analysis, "technical_skills", <<>>),
                                JDSkillsCap),
          ![p].jd_keywords = Take(Get(passes[p].jd_analysis, "keywords", <<>>),
                                  JDKeywordsCap),
          ![p].optimized_experience = <<>>,
          ![UsedListOwner(p)].used_keywords_global = <<>>,
          ![p].ei = 1,
          ![p].pc = "entry"]

\* for entry in experience_list: optimized_entry = dict(entry);
\* original_bullets = entry.get("bullets", []); optimized_bullets = []
PassBeginEntry(p) ==
    /\ PassFrameOnly
    /\ passes[p].pc = "entry"
    /\ passes[p].ei <= Len(passes[p].experience_list)
    /\ passes' = [passes EXCEPT
          ![p].optimized_entry = passes[p].experience_list[passes[p].ei],
          ![p].optimized_bullets = <<>>,
          ![p].bi = 1,
          ![p].pc = "bullet"]

\* the list the inner loop of call p runs over
PassBullets(p) == Get(passes[p].experience_list[passes[p].ei], "bullets", <<>>)

\* if not bullet.strip(): continue
PassSkipBullet(p) ==
    /\ PassFrameOnly
    /\ passes[p].pc = "bullet"
    /\ passes[p].bi <= Len(PassBullets(p))
    /\ IsBlankBullet(PassBullets(p)[passes[p].bi])
    /\ passes' = [passes EXCEPT ![p].bi = @ + 1]

\* enhanced = enhance_bullet(bullet, jd_keywords, jd_skills, used_keywords_global);
\* optimized_bullets.append(enhanced).  The frame's log records the call.
PassEnhanceBullet(p) ==
    /\ PassFrameOnly
    /\ passes[p].pc = "bullet"
    /\ passes[p].bi <= Len(PassBullets(p))
    /\ ~IsBlankBullet(PassBullets(p)[passes[p].bi])
    /\ \E out \in enhance_bullet(PassBullets(p)[passes[p].bi], passes[p].jd_keywords,
                                 passes[p].jd_skills, UsedList(p)) :
          passes' = [passes EXCEPT
             ![UsedListOwner(p)].used_keywords_global = out.used,
             ![p].optimized_bullets = Append(@, out.bullet),
             ![p].log = Append(@, [input |-> PassBullets(p)[passes[p].bi],
                                   output |-> out.bullet,
                                   inserted |-> out.inserted]),
             ![p].bi = @ + 1]

\* optimized_entry["bullets"] = optimized_bullets;
\* optimized_experience.append(optimized_entry)
PassEndEntry(p) ==
    /\ PassFrameOnly
    /\ passes[p].pc = "bullet"
    /\ passes[p].bi > Len(PassBullets(p))
    /\ passes' = [passes EXCEPT
          ![p].optimized_experience =
              Append(@, SetItem(passes[p].optimized_entry, "bullets",
                                passes[p].optimized_bullets)),
          ![p].ei = @ + 1,
          ![p].pc = "entry"]

\* return optimized_experience
PassReturn(p) ==
    /\ PassFrameOnly
    /\ passes[p].pc = "entry"
    /\ passes[p].ei > Len(passes[p].experience_list)
    /\ passes' = [passes EXCEPT ![p].pc = "done"]

NextPasses ==
    \/ \E p \in Passes : PassBegin(p)
    \/ \E p \in Passes : PassBeginEntry(p)
    \/ \E p \in Passes : PassSkipBullet(p)
    \/ \E p \in Passes : PassEnhanceBullet(p)
    \/ \E p \in Passes : PassEndEntry(p)
    \/ \E p \in Passes : PassReturn(p)

EntryOf(company) == CHOOSE e \in Entries : e.company = company

PassExperiences ==
    {<<EntryOf("Gamma")>>,
     <<EntryOf("Beta"), EntryOf("Delta"), EntryOf("Acme")>>}

PassJDs == {JDOf(ts) : ts \in {<<"Kubernetes">>, <<"Docker", "docker">>}}

InitPasses ==
    /\ pc = "passes"
    /\ resume_data = EmptyDict
    /\ jd_analysis = EmptyDict
    /\ result = EmptyDict
    /\ optimized_text = ""
    /\ pre_ats = EmptyDict
    /\ new_summary = ""
    /\ optimized_skills = <<>>
    /\ optimized_experience = <<>>
    /\ used_keywords_global = <<>>
    /\ optimized_entry = EmptyDict
    /\ optimized_bullets = <<>>
    /\ ei = 0
    /\ bi = 0
    /\ log = <<>>
    /\ jd_text = ""
    /\ passes \in {[p \in Passes |-> NewFrame(IF p = 1 THEN e1 ELSE e2, jd)] :
                     e1 \in PassExperiences, e2 \in PassExperiences, jd \in PassJDs}

SpecPasses == InitPasses /\ [][NextPasses]_vars

(***************************************************************************)
(* analyze_jd run twice on the same text, in two runs of the program: the  *)
(* order of list(set(...)) follows the string hashes of the run.           *)
(***************************************************************************)
InitRuns ==
    /\ pc = "first run"
    /\ resume_data = EmptyDict
    /\ jd_analysis = EmptyDict
    /\ result = EmptyDict
    /\ optimized_text = ""
    /\ pre_ats = EmptyDict
    /\ new_summary = ""
    /\ optimized_skills = <<>>
    /\ optimized_experience = <<>>
    /\ used_keywords_global = <<>>
    /\ optimized_entry = EmptyDict
    /\ optimized_bullets = <<>>
    /\ ei = 0
    /\ bi = 0
    /\ log = <<>>
    /\ jd_text \in JDTexts
    /\ passes = <<>>

\* jd_analysis = analyze_jd(jd_text), as the request handler calls it
FirstRun ==
    /\ pc = "first run"
    /\ jd_analysis' \in analyze_jd(jd_text)
    /\ pc' = "second run"
    /\ UNCHANGED <<resume_data, result, locals>>

\* the same call in another run of the program
SecondRun ==
    /\ pc = "second run"
    /\ result' \in analyze_jd(jd_text)
    /\ pc' = "done"
    /\ UNCHANGED <<resume_data, jd_analysis, locals>>

NextRuns == FirstRun \/ SecondRun

SpecRuns == InitRuns /\ [][NextRuns]_vars

(***************************************************************************)
(* extract_experience_level on texts built from year phrases and level     *)
(* keywords.                                                               *)
(***************************************************************************)
\* kind: 0 no year phrase, else the rank of its pattern in year_patterns;
\* years: the number the pattern's group holds
YearPhrases ==
    {[text |-> "we value curiosity", kind |-> 0, years |-> 0],
     [text |-> "5-7 years of experience required", kind |-> 1, years |-> 7],
     [text |-> "1 to 2 years in a similar role", kind |-> 1, years |-> 2],
     [text |-> "3+ years of python", kind |-> 2, years |-> 3],
     [text |-> "10+ years", kind |-> 2, years |-> 10],
     [text |-> "Minimum 8 years", kind |-> 3, years |-> 8],
     [text |-> "at least 9 years", kind |-> 4, years |-> 9],
     [text |-> "at least 5 year", kind |-> 4, years |-> 5]}

\* sets: the level keyword sets of EXPERIENCE_LEVELS with a keyword in text
KeywordPhrases ==
    {[text |-> "", sets |-> {}],
     [text |-> "join our growing team", sets |-> {}],
     [text |-> "an intermediate or expert engineer", sets |-> {"mid", "senior"}],
     [text |-> "staff and Junior engineers", sets |-> {"entry", "senior"}],
     [text |-> "director of engineering, Sr. level", sets |-> {"senior", "executive"}],
     [text |-> "reports to the CTO", sets |-> {"executive"}]}

LevelText(a, b, k) == a.text \o "; " \o b.text \o "; " \o k.text

LevelExample == "5-7 years of experience required"

LevelTexts ==
    {LevelText(a, b, k) : a \in YearPhrases, b \in YearPhrases, k \in KeywordPhrases}
    \cup {LevelExample}

InitLevel ==
    /\ pc = "call"
    /\ resume_data = EmptyDict
    /\ jd_analysis = EmptyDict
    /\ result = ""
    /\ optimized_text = ""
    /\ pre_ats = EmptyDict
    /\ new_summary = ""
    /\ optimized_skills = <<>>
    /\ optimized_experience = <<>>
    /\ used_keywords_global = <<>>
    /\ optimized_entry = EmptyDict
    /\ optimized_bullets = <<>>
    /\ ei = 0
    /\ bi = 0
    /\ log = <<>>
    /\ jd_text \in LevelTexts
    /\ passes = <<>>

\* experience_level = extract_experience_level(jd_text)
CallLevel ==
    /\ pc = "call"
    /\ result' = extract_experience_level(jd_text)
    /\ pc' = "done"
    /\ UNCHANGED <<resume_data, jd_analysis, locals>>

NextLevel == CallLevel

SpecLevel == InitLevel /\ [][NextLevel]_vars

(***************************************************************************)
(* replace_weak_verb on sentences built from parts.                        *)
(***************************************************************************)
\* "Was responsible for" in several casings and spacings, and behind a glyph
ResponsiblePrefixes ==
    {"Was responsible for ", "was  responsible for ", "- WAS RESPONSIBLE FOR "}

\* past: the entry of ING_TO_PAST for the gerund, "Managed" for a gerund the
\* table does not hold
Gerunds ==
    {[word |-> "managing", past |-> "Managed"],
     [word |-> "Building", past |-> "Built"],
     [word |-> "setting", past |-> "Set up"],
     [word |-> "running", past |-> "Managed"]}

ResponsibleRests == {"a team of 5 engineers", "the CI Pipeline for iOS"}

ResponsibleSentence(prefix, gerund, rest) == prefix \o gerund.word \o " " \o rest

\* sentences no rule matches and whose first word is not detected as weak
PlainBodies ==
    {"Led the migration to AWS", "Designed REST APIs.", "Owner of the Billing domain",
     "Shipped", "2 patents filed"}

\* what may stand before and after the text of a bullet
LeadGlyphs == {"", "- ", "* ", "  ", "-"}

Trails == {"", " "}

PlainSentence(lead, body, trail) == lead \o body \o trail

\* first words the weak-verb test detects: two entries of WEAK_VERBS and a
\* word that shares the first four letters of one
WeakFirstWords == {"Helped", "wrote", "Working"}

\* cats: the context categories with a trigger word in the sentence
WeakTails ==
    {[text |-> "the Team build APIs", cats |-> {"collaboration", "development"}],
     [text |-> "new API endpoints", cats |-> {"development"}],
     [text |-> "Revenue by 20% and cut costs", cats |-> {"growth", "reduction"}],
     [text |-> "hosting costs", cats |-> {}],
     [text |-> "latency to a minimum", cats |-> {"reduction"}],
     [text |-> "and assessed vendor risk", cats |-> {"analysis"}],
     [text |-> "two mentors and transformed hiring", cats |-> {"leadership", "automation"}],
     [text |-> "data migration and improved QA", cats |-> {"automation", "improvement"}],
     [text |-> "and   streamlined  Onboarding", cats |-> {"improvement"}],
     [text |-> "daily reports for Finance", cats |-> {}]}

WeakSentence(lead, first, tail) == lead \o first \o " " \o tail.text

RewriteSentences ==
    {ResponsibleSentence(p, g, r) :
        p \in ResponsiblePrefixes, g \in Gerunds, r \in ResponsibleRests}
    \cup {PlainSentence(l, b, t) : l \in LeadGlyphs, b \in PlainBodies, t \in Trails}
    \cup {WeakSentence(l, f, t) : l \in {"", "- "}, f \in WeakFirstWords, t \in WeakTails}
    \cup {"Helped", "Was a mentor", "Worked on API testing"}

InitRewrite ==
    /\ pc = "call"
    /\ resume_data = EmptyDict
    /\ jd_analysis = EmptyDict
    /\ result = EmptyDict
    /\ LocalsIdle

\* enhanced = replace_weak_verb(bullet); log records the call
CallRewrite ==
    /\ pc = "call"
    /\ \E sentence \in RewriteSentences :
          \E enhanced \in replace_weak_verb(sentence) :
              log' = <<[input |-> sentence, output |-> enhanced]>>
    /\ pc' = "done"
    /\ UNCHANGED <<resume_data, jd_analysis, result, optimized_text, pre_ats,
                   new_summary, optimized_skills, optimized_experience,
                   used_keywords_global, optimized_entry, optimized_bullets, ei, bi,
                   jd_text, passes>>

NextRewrite == CallRewrite

SpecRewrite == InitRewrite /\ [][NextRewrite]_vars

(***************************************************************************)
(* detect_industry_domain on texts built from domain keywords.             *)
(***************************************************************************)
\* domains: the domains of domain_keywords that list a keyword of the text
DomainWords ==
    <<[text |-> "backend", domains |-> {"Software Engineering"}],
      [text |-> "REST API", domains |-> {"Software Engineering"}],
      [text |-> "cloud, Cloud and more cloud", domains |-> {"DevOps/Cloud"}],
      [text |-> "Kubernetes", domains |-> {"DevOps/Cloud"}],
      [text |-> "compliance", domains |-> {"Cybersecurity", "Finance/Fintech"}],
      [text |-> "analytics", domains |-> {"Data Science/ML", "Marketing"}],
      [text |-> "risk", domains |-> {"Finance/Fintech"}],
      [text |-> "brand", domains |-> {"Marketing"}],
      [text |-> "kafka", domains |-> {"Data Engineering"}]>>

\* the text naming the words chosen, in the order of DomainWords
DomainText(chosen) ==
    LET RECURSIVE Upto(_)
        Upto(n) == IF n = 0 THEN "We are hiring:"
                   ELSE IF n \in chosen THEN Upto(n - 1) \o " " \o DomainWords[n].text \o ";"
                   ELSE Upto(n - 1)
    IN  Upto(Len(DomainWords))

DomainChoices == SUBSET (1..Len(DomainWords))

InitDomain ==
    /\ pc = "call"
    /\ resume_data = EmptyDict
    /\ jd_analysis = EmptyDict
    /\ result = ""
    /\ optimized_text = ""
    /\ pre_ats = EmptyDict
    /\ new_summary = ""
    /\ optimized_skills = <<>>
    /\ optimized_experience = <<>>
    /\ used_keywords_global = <<>>
    /\ optimized_entry = EmptyDict
    /\ optimized_bullets = <<>>
    /\ ei = 0
    /\ bi = 0
    /\ log = <<>>
    /\ jd_text \in {DomainText(chosen) : chosen \in DomainChoices}
    /\ passes = <<>>

\* domain = detect_industry_domain(jd_text, skills)
CallDomain ==
    /\ pc = "call"
    /\ result' = detect_industry_domain(jd_text)
    /\ pc' = "done"
    /\ UNCHANGED <<resume_data, jd_analysis, locals>>

NextDomain == CallDomain

SpecDomain == InitDomain /\ [][NextDomain]_vars

(***************************************************************************)
(* The /optimize request handler, optimize_endpoint: it parses the resume  *)
(* of the request, checks the JD text, calls analyze_jd and then           *)
(* optimize_resume (the steps of Next), and answers.  A response is a      *)
(* record with the HTTP status; the html field of the success response is  *)
(* left out.                                                               *)
(***************************************************************************)
HandlerMinJDLength == 50
ResponseListCap == 15

HandlerRejects_Untrimmed(text) == text = "" \/ Len(text) < HandlerMinJDLength

\* if not jd_text or len(jd_text.strip()) < 50
HandlerRejects(text) == text = "" \/ Len(Strip(text)) < HandlerMinJDLength

\* raise HTTPException(status_code=..., detail=...)
HttpError(status, detail) == [status |-> status, detail |-> detail]

\* what a request can carry as its resume: an uploaded file (content: the
\* file has bytes; parsed: what parse_resume returns for it), a resume_json
\* string (valid: json.loads accepts it; parsed: the object it decodes to),
\* or neither
ResumeSources ==
    {[kind |-> "file", content |-> FALSE, parsed |-> EmptyDict],
     [kind |-> "file", content |-> TRUE,
      parsed |-> ResumeOf(<<EntryOf("Acme"), EntryOf("Beta")>>)],
     [kind |-> "file", content |-> TRUE,
      parsed |-> [error |-> "Could not extract text from PDF", full_text |-> ""]],
     [kind |-> "json", valid |-> FALSE, parsed |-> EmptyDict],
     [kind |-> "json", valid |-> TRUE, parsed |-> ResumeOf(<<EntryOf("Gamma")>>)],
     [kind |-> "none"]}

\* JD texts around the length check, and the texts of JDBodies
HandlerBody == "We're looking for a Senior Backend Engineer to design and build APIs with Python."

HandlerTexts ==
    {"", "      ", "Platform Engineer",
     "  " \o SubSeq(HandlerBody, 1, HandlerMinJDLength - 1) \o "\n \t",
     SubSeq(HandlerBody, 1, HandlerMinJDLength)}
    \cup JDBodies

InitHandler ==
    /\ pc = "request"
    /\ resume_data = EmptyDict
    /\ jd_analysis = EmptyDict
    /\ result = EmptyDict
    /\ optimized_text = ""
    /\ pre_ats = EmptyDict
    /\ new_summary = ""
    /\ optimized_skills = <<>>
    /\ optimized_experience = <<>>
    /\ used_keywords_global = <<>>
    /\ optimized_entry = EmptyDict
    /\ optimized_bullets = <<>>
    /\ ei = 0
    /\ bi = 0
    /\ log = <<>>
    /\ jd_text \in HandlerTexts
    /\ passes = <<>>

\* the locals of optimize_resume and the request's JD text stay as they are
HandlerFrame ==
    UNCHANGED <<optimized_text, pre_ats, new_summary, optimized_skills,
                optimized_experience, used_keywords_global, optimized_entry,
                optimized_bullets, ei, bi, log, jd_text, passes>>

\* "Parse resume": the file, else resume_json, else 400
HandlerParse ==
    /\ pc = "request"
    /\ \E source \in ResumeSources :
          IF source.kind = "file" /\ ~source.content
          THEN /\ result' = HttpError(400, "Empty resume file")
               /\ pc' = "responded"
               /\ UNCHANGED resume_data
          ELSE IF source.kind = "json" /\ ~source.valid
          THEN /\ result' = HttpError(400, "Invalid resume JSON")
               /\ pc' = "responded"
               /\ UNCHANGED resume_data
          ELSE IF source.kind = "none"
          THEN /\ result' = HttpError(400, "No resume provided")
               /\ pc' = "responded"
               /\ UNCHANGED resume_data
          ELSE /\ resume_data' = source.parsed
               /\ pc' = "check"
               /\ UNCHANGED result
    /\ UNCHANGED jd_analysis
    /\ HandlerFrame

\* if not jd_text or len(jd_text.strip()) < 50: raise HTTPException(400, ...)
HandlerCheck ==
    /\ pc = "check"
    /\ IF HandlerRejects(jd_text)
       THEN /\ result' = HttpError(400, "JD text too short or empty")
            /\ pc' = "responded"
       ELSE /\ pc' = "analyze"
            /\ UNCHANGED result
    /\ UNCHANGED <<resume_data, jd_analysis>>
    /\ HandlerFrame

\* jd_analysis = analyze_jd(jd_text); optimize_resume(resume_data,
\* jd_analysis) is entered
HandlerAnalyze ==
    /\ pc = "analyze"
    /\ jd_analysis' \in analyze_jd(jd_text)
    /\ pc' = "start"
    /\ UNCHANGED <<resume_data, result>>
    /\ HandlerFrame

\* optimize_resume has returned (the success response is built from its
\* result) or raised (except Exception: 500)
HandlerRespond ==
    /\ pc \in {"done", "raised"}
    /\ result' =
          IF pc = "raised" THEN HttpError(500, "Optimization error")
          ELSE [status |-> 200,
                success |-> TRUE,
                optimized_data |-> result.optimized,
                ats |-> result.ats,
                keywords_added |-> result.keywords_added,
                keywords_existing |-> result.keywords_existing,
                jd_analysis |->
                   [job_title |-> Get(result.jd_analysis, "job_title", ""),
                    domain |-> Get(result.jd_analysis, "domain", ""),
                    experience_level |-> Get(result.jd_analysis, "experience_level", ""),
                    technical_skills |->
                        Take(Get(result.jd_analysis, "technical_skills", <<>>), ResponseListCap),
                    keywords |-> Take(Get(result.jd_analysis, "keywords", <<>>),
                             ResponseListCap)]]
    /\ pc' = "responded"
    /\ UNCHANGED <<resume_data, jd_analysis>>
    /\ HandlerFrame

NextHandler ==
    \/ HandlerParse
    \/ HandlerCheck
    \/ HandlerAnalyze
    \/ Next
    \/ HandlerRespond

SpecHandler == InitHandler /\ [][NextHandler]_vars

(***************************************************************************)
(* is_contextually_relevant on keywords and bullets.                       *)
(***************************************************************************)
GateKeywords ==
    {"Python", "javascript", "TypeScript", "Java", "Go", "GO", "Rust",
     "Kubernetes", "AWS", "Terraform", "s3", "PostgreSQL", "Redis", "oracle", "Jenkins"}

GateBullets ==
    {"Designed the onboarding flow",
     "Built responsive UI in Vue",
     "Led weekly planning",
     "Designed a Flask API",
     "Built React components",
     "Configured the build pipeline for releases",
     "Built Node services in Express",
     "Maintained Spring services with Maven",
     "Wrote golang CLI tools",
     "Moved the Go services to gRPC",
     "Developed Angular widgets",
     "Created unit tests",
     "Deployed to AWS with Terraform",
     "Tuned SQL queries",
     "Developed Django apps in Python",
     "Migrated JavaScript to TypeScript",
     "Integrated the Java billing module",
     "Wrote unit tests for the checkout API",
     "Designed the Redis cache layer",
     "Led the Kubernetes rollout",
     "Built dashboards for hosted apps",
     "Created reports from customer data"}

InitGate ==
    /\ pc = "call"
    /\ resume_data = EmptyDict
    /\ jd_analysis = EmptyDict
    /\ result = EmptyDict
    /\ LocalsIdle

\* if not is_contextually_relevant(keyword, bullet): return bullet;
\* log records the call
CallGate ==
    /\ pc = "call"
    /\ \E keyword \in GateKeywords, bullet \in GateBullets :
          log' = <<[keyword |-> keyword, bullet |-> bullet,
                    accepted |-> is_contextually_relevant(keyword, bullet)]>>
    /\ pc' = "done"
    /\ UNCHANGED <<resume_data, jd_analysis, result, optimized_text, pre_ats,
                   new_summary, optimized_skills, optimized_experience,
                   used_keywords_global, optimized_entry, optimized_bullets, ei, bi,
                   jd_text, passes>>

NextGate == CallGate

SpecGate == InitGate /\ [][NextGate]_vars

(***************************************************************************)
(* insert_keyword_naturally on bullets made of a stem and an ending.       *)
(***************************************************************************)
\* stems with the verb classes they name
InsertStems ==
    {[text |-> "Built the API", classes |-> {"build"}],
     [text |-> "Improved API latency", classes |-> {"improve"}],
     [text |-> "Deployed the API servers", classes |-> {"deploy"}],
     [text |-> "Migrated the servers", classes |-> {"deploy"}],
     [text |-> "Improved and built the API", classes |-> {"build", "improve"}],
     [text |-> "Configured and streamlined the API servers", classes |-> {"improve", "deploy"}],
     [text |-> "Maintained the API servers", classes |-> {}],
     [text |-> "Led weekly planning", classes |-> {}]}

InsertEndings == {"", ".", ". ", "  "}

InsertKeywords == {"Flask", "AWS", "Docker", "GraphQL"}

InitInsert ==
    /\ pc = "call"
    /\ resume_data = EmptyDict
    /\ jd_analysis = EmptyDict
    /\ result = EmptyDict
    /\ LocalsIdle

\* new_enhanced = insert_keyword_naturally(enhanced, skill); log records the call
CallInsert ==
    /\ pc = "call"
    /\ \E stem \in InsertStems, ending \in InsertEndings, keyword \in InsertKeywords :
          log' = <<[stem |-> stem, ending |-> ending, keyword |-> keyword,
                    output |-> insert_keyword_naturally(stem.text \o ending, keyword)]>>
    /\ pc' = "done"
    /\ UNCHANGED <<resume_data, jd_analysis, result, optimized_text, pre_ats,
                   new_summary, optimized_skills, optimized_experience,
                   used_keywords_global, optimized_entry, optimized_bullets, ei, bi,
                   jd_text, passes>>

NextInsert == CallInsert

SpecInsert == InitInsert /\ [][NextInsert]_vars

(***************************************************************************)
(* optimize_experience over resumes whose bullets suit several JD skills,  *)
(* for JD profiles with more than twelve technical skills.                 *)
(***************************************************************************)
PriorityExperiences ==
    {<<[company |-> "Acme",
        bullets |-> <<"Designed the onboarding flow", "   ", "Built the signup form",
                      "Created the landing page">>]>>,
     <<[company |-> "Beta",
        bullets |-> <<"Deployed services to the cloud", "Tuned SQL queries">>],
       [company |-> "Gamma",
        bullets |-> <<BulletWeak, "Built the signup form", "built the billing page.">>]>>,
     <<[company |-> "Delta",
        bullets |-> <<"Migrated the servers", "Improved cache hit rates",
                      "Configured the release servers">>],
       [company |-> "Acme", bullets |-> <<"Designed the onboarding flow">>]>>}

PrioritySkillLists ==
    {<<"Kubernetes", "PostgreSQL", "React", "Flask", "AWS", "Redis", "Python", "Java",
       "Go", "Terraform", "MySQL", "Jenkins", "Docker", "Ansible">>,
     <<"Docker", "docker", "Kubernetes">>,
     <<"Git", "TypeScript", "Redis", "GraphQL", "AWS">>,
     <<>>}

PriorityJDs ==
    {[JDOf(ts) EXCEPT !.keywords = <<"scalable", "reliability", "Grafana">>] :
        ts \in PrioritySkillLists}

InitPriority ==
    /\ pc = "experience"
    /\ resume_data \in {ResumeOf(e) : e \in PriorityExperiences}
    /\ jd_analysis \in PriorityJDs
    /\ result = EmptyDict
    /\ LocalsIdle

\* return optimized_experience
ReturnExperience ==
    /\ pc = "entry"
    /\ ei > Len(ExperienceList)
    /\ pc' = "returned"
    /\ UNCHANGED <<passes, jd_text, resume_data, jd_analysis, result, optimized_text, pre_ats,
                   new_summary, optimized_skills, optimized_experience,
                   used_keywords_global, optimized_entry, optimized_bullets, ei, bi, log>>

NextPriority ==
    \/ BeginExperience
    \/ BeginEntry
    \/ SkipBullet
    \/ EnhanceBullet
    \/ EndEntry
    \/ ReturnExperience

SpecPriority == InitPriority /\ [][NextPriority]_vars

(***************************************************************************)
(* replace_weak_verb applied to its own result.                            *)
(***************************************************************************)
\* sentences a pattern rule rewrites
RuleSentences ==
    {prefix \o gerund \o " " \o rest :
        prefix \in {"Was responsible for ", "was responsible for "},
        gerund \in {"writing", "working", "managing", "building", "testing", "setting"},
        rest \in {"unit tests", "the release notes", "a team of 5 engineers"}}
    \cup {"Worked on API testing", "Worked on building the billing API",
          "Helped with onboarding", "Helped to reduce costs", "Made a billing service faster",
          "Used Python for scripting", "Tried to reduce costs", "Did code reviews",
          "Was involved in planning", "Was part of the platform team",
          "Participated in design reviews", "Assisted in hiring"}

InitAgain ==
    /\ pc = "call"
    /\ resume_data = EmptyDict
    /\ jd_analysis = EmptyDict
    /\ result = EmptyDict
    /\ LocalsIdle

\* enhanced = replace_weak_verb(bullet); log records the call
RewriteOnce ==
    /\ pc = "call"
    /\ \E sentence \in RuleSentences :
          \E enhanced \in replace_weak_verb(sentence) :
              log' = <<[input |-> sentence, output |-> enhanced]>>
    /\ pc' = "again"
    /\ UNCHANGED <<resume_data, jd_analysis, result, optimized_text, pre_ats,
                   new_summary, optimized_skills, optimized_experience,
                   used_keywords_global, optimized_entry, optimized_bullets, ei, bi,
                   jd_text, passes>>

\* replace_weak_verb called on the bullet the first call returned
RewriteAgain ==
    /\ pc = "again"
    /\ \E enhanced \in replace_weak_verb(log[1].output) :
          log' = Append(log, [input |-> log[1].output, output |-> enhanced])
    /\ pc' = "done"
    /\ UNCHANGED <<resume_data, jd_analysis, result, optimized_text, pre_ats,
                   new_summary, optimized_skills, optimized_experience,
                   used_keywords_global, optimized_entry, optimized_bullets, ei, bi,
                   jd_text, passes>>

NextAgain == RewriteOnce \/ RewriteAgain

SpecAgain == InitAgain /\ [][NextAgain]_vars

(***************************************************************************)
(* Claims                                                                  *)
(***************************************************************************)

\* C1: for every resume record and every JD profile, empty ones included,
\* the total of calculate_ats_score is an integer between 15 and 100.
C1_TotalBounds ==
    pc = "done" => (result.total \in Int /\ 15 <= result.total /\ result.total <= 100)

\* C1 witness: the floor is applied (empty profile) and the cap is met
\* in other runs; here the floor case with an empty JD profile.
C1_Witness ==
    /\ pc = "done"
    /\ jd_analysis = EmptyDict
    /\ result.total = 15

\* C2: the grade is a function of the returned total alone: A exactly when
\* total >= 85, B exactly when 70 <= total < 85, C exactly when
\* 55 <= total < 70, D exactly when total < 55.
C2_GradeThresholds ==
    pc = "done" =>
        /\ (result.grade = "A") <=> (result.total >= 85)
        /\ (result.grade = "B") <=> (70 <= result.total /\ result.total < 85)
        /\ (result.grade = "C") <=> (55 <= result.total /\ result.total < 70)
        /\ (result.grade = "D") <=> (result.total < 55)

\* C2 witness: a call that returns exactly the boundary total 85, graded A.
C2_Witness == pc = "done" /\ result.total = 85 /\ result.grade = "A"

\* skill occurs in the list S, compared without case
InSkillList(skill, S) == \E i \in 1..Len(S) : Lower(S[i]) = Lower(skill)

\* C3: truthfulness of the skills list: every skill of the output of
\* optimize_skills_section(S, J) that is not in S, compared without case,
\* belongs to a taxonomy category that lists at least one skill of S; when
\* no skill of S is in the taxonomy nothing is added.
C3_Truthful ==
    pc = "done" =>
        LET S == Get(resume_data, "skills", <<>>)
        IN  /\ \A i \in 1..Len(result) :
                  ~InSkillList(result[i], S) =>
                      \E c \in 1..Len(SKILLS_DB) :
                          /\ InCategory(result[i], c)
                          /\ \E j \in 1..Len(S) : InCategory(S[j], c)
            /\ (\A j \in 1..Len(S) : SkillDomain(S[j]) = 0) =>
                  \A i \in 1..Len(result) : InSkillList(result[i], S)

\* C3 witness: a JD skill was added to a resume that has a skill in its
\* category, while another taxonomy skill of the JD was held back.
C3_Witness ==
    /\ pc = "done"
    /\ LET S == Get(resume_data, "skills", <<>>)
           J == Get(jd_analysis, "technical_skills", <<>>)
       IN  /\ \E i \in 1..Len(result) : ~InSkillList(result[i], S)
           /\ \E j \in 1..Len(J) :
                  /\ SkillDomain(J[j]) # 0
                  /\ ~InSkillList(J[j], result)

\* C4: within one optimize_experience pass no keyword, compared without
\* case, is inserted into more than one bullet, across all bullets of all
\* entries and for any JD technical-skills list.
C4_GlobalUniqueness ==
    \A i, j \in 1..Len(log) :
        (i # j /\ log[i].inserted # <<>> /\ log[j].inserted # <<>>)
            => Lower(log[i].inserted[1]) # Lower(log[j].inserted[1])

\* the indexes of the bullets that are not whitespace, ascending
NonBlankIndexes(bullets) ==
    SelectSeq([i \in 1..Len(bullets) |-> i], LAMBDA i : Strip(bullets[i]) # "")

\* the enhance_bullet calls made for entry e, in call order
CallsOf(e) == SelectSeq(log, LAMBDA r : r.entry = e)

\* C5: bullet preservation: every optimized entry has as many bullets as
\* the input entry has non-whitespace bullets, the i-th output bullet is the
\* result of rewriting the i-th non-whitespace input bullet, and the
\* experience entries keep their number and order.
C5_BulletPreservation ==
    pc = "done" =>
        LET input == Get(resume_data, "experience", <<>>)
            output == result.optimized.experience
        IN  /\ Len(output) = Len(input)
            /\ \A e \in 1..Len(input) :
                  LET bullets == Get(input[e], "bullets", <<>>)
                      src == NonBlankIndexes(bullets)
                      calls == CallsOf(e)
                  IN  /\ output[e].company = input[e].company
                      /\ Len(output[e].bullets) = Len(src)
                      /\ Len(calls) = Len(src)
                      /\ \A k \in 1..Len(src) :
                            /\ calls[k].bullet = src[k]
                            /\ calls[k].input = bullets[src[k]]
                            /\ calls[k].output = output[e].bullets[k]

\* C5 witness: a returned entry whose input had a whitespace bullet, which
\* was left out, and a bullet that was rewritten.
C5_Witness ==
    /\ pc = "done"
    /\ \E e \in 1..Len(result.optimized.experience) :
          LET bullets == Get(resume_data.experience[e], "bullets", <<>>)
              out == result.optimized.experience[e].bullets
          IN  /\ 0 < Len(out)
              /\ Len(out) < Len(bullets)
              /\ \E k \in 1..Len(out) : \A i \in 1..Len(bullets) : out[k] # bullets[i]

\* C6: when the JD technical skills include "Kubernetes", the keyword is
\* never inserted into a bullet whose input text contains no devops-bucket
\* term, whichever strong verb the rewriter's random choice substitutes.
C6_KubernetesNeedsDevopsBullet ==
    \A i \in 1..Len(log) :
        log[i].inserted = <<"Kubernetes">> => BulletIsDevops(Lower(log[i].input))

\* no two entries of the list are equal without case
NoCaseDuplicate(xs) == \A i, j \in 1..Len(xs) : i # j => Lower(xs[i]) # Lower(xs[j])

\* C7: the lists added and already_had of compute_keyword_diff each hold no
\* two entries equal without case and at most 15 entries, also when the JD
\* technical skills and the JD keywords overlap or repeat.
C7_DiffDistinctAndCapped ==
    pc = "done" =>
        /\ NoCaseDuplicate(result.added)
        /\ NoCaseDuplicate(result.already_had)
        /\ Len(result.added) <= 15
        /\ Len(result.already_had) <= 15

\* C7 witness: more than 15 distinct keywords qualify as added, the JD
\* lists repeat a keyword in two casings, and 15 are returned.
C7_Witness ==
    /\ pc = "done"
    /\ Len(result.added) = 15
    /\ LET kws == Get(jd_analysis, "technical_skills", <<>>) \o Get(jd_analysis, "keywords", <<>>)
       IN  /\ ~NoCaseDuplicate(kws)
           /\ Cardinality({Lower(kws[i]) : i \in {j \in 1..Len(kws) : Len(kws[j]) >= 3}}) > 15

\* the ten fields of a JD profile
ProfileFields ==
    {"job_title", "domain", "experience_level", "technical_skills", "soft_skills",
     "keywords", "action_verbs", "skills_by_category", "sections", "raw_text"}

\* C8: analyze_jd returns the empty mapping exactly when the JD text is
\* empty or its length after trimming whitespace is below 50; for a text
\* whose trimmed length is 50 or more it returns a profile with all ten
\* fields.
C8_ShortTextGate ==
    pc = "done" =>
        /\ (result = EmptyDict) <=> (jd_text = "" \/ Len(Strip(jd_text)) < 50)
        /\ Len(Strip(jd_text)) >= 50 => DOMAIN result = ProfileFields

\* C8 witness: a text between whitespace whose trimmed length is exactly 50
\* was analyzed into a profile.
C8_Witness ==
    /\ pc = "done"
    /\ Len(Strip(jd_text)) = 50
    /\ Len(jd_text) > 50
    /\ DOMAIN result = ProfileFields
    /\ result.raw_text = jd_text

\* C9: optimize_resume, and the calculate_ats_score calls it makes, raise no
\* error when any of contact, contact.email, summary, skills, experience,
\* bullets of an entry, raw_sections, full_text and years_experience is
\* missing, for any JD profile: the call returns a normal result in which a
\* missing part adds nothing to the score and is skipped in rewriting.
C9_MissingFieldsDegrade ==
    /\ pc # "raised"
    /\ pc = "done" =>
          LET format == result.ats.breakdown.format.score
              email == Get(Get(resume_data, "contact", EmptyDict), "email", "")
          IN  /\ DOMAIN result = {"optimized", "ats", "keywords_added",
                                  "keywords_existing", "jd_analysis"}
              /\ result.ats.before \in 15..100
              /\ result.ats.after \in 15..100
              /\ "raw_sections" \notin DOMAIN resume_data => format <= 3
              /\ email = "" => format % 3 = 0 /\ format <= 12
              /\ ("raw_sections" \notin DOMAIN resume_data /\ email = "") => format = 0
              /\ "full_text" \notin DOMAIN resume_data =>
                    result.ats.before = Max(15, format)
              /\ "skills" \notin DOMAIN resume_data => result.optimized.skills = <<>>
              /\ "experience" \notin DOMAIN resume_data =>
                    result.optimized.experience = <<>>
              /\ \A e \in 1..Len(result.optimized.experience) :
                    "bullets" \notin DOMAIN resume_data.experience[e] =>
                        result.optimized.experience[e].bullets = <<>>

\* C9 witness: the call returned for a record without full_text, skills,
\* raw_sections and contact whose entries have no bullets, under a JD
\* profile that is not empty.
C9_Witness ==
    /\ pc = "done"
    /\ DOMAIN resume_data \cap {"full_text", "skills", "raw_sections", "contact"} = {}
    /\ "experience" \in DOMAIN resume_data
    /\ \A e \in 1..Len(resume_data.experience) :
          "bullets" \notin DOMAIN resume_data.experience[e]
    /\ jd_analysis # EmptyDict
    /\ result.ats.before = 15

\* C10: optimize_resume leaves its inputs unchanged: no step of the call
\* changes the resume record (its entries, bullet lists and skills list
\* included) or the JD profile.
C10_InputsUnchanged ==
    [][resume_data' = resume_data /\ jd_analysis' = jd_analysis]_vars

\* C10 witness: the call has returned with a rewritten bullet list for an
\* entry while the resume record still holds the original one.
C10_Witness ==
    /\ pc = "done"
    /\ \E e \in 1..Len(result.optimized.experience) :
          /\ "bullets" \in DOMAIN resume_data.experience[e]
          /\ result.optimized.experience[e].bullets # resume_data.experience[e].bullets

\* the keywords call p has inserted before its k-th enhance_bullet call
OwnInsertions(p, k) ==
    LET RECURSIVE Upto(_)
        Upto(n) == IF n = 0 THEN <<>> ELSE Upto(n - 1) \o passes[p].log[n].inserted
    IN  Upto(k - 1)

\* the k-th enhance_bullet call of call p did what it does in a call that
\* runs alone: its outcome is an outcome of enhance_bullet on the same
\* bullet with the used list holding the call's own earlier insertions only
AsWhenAlone(p, k) ==
    LET r == passes[p].log[k]
    IN  \E out \in enhance_bullet(r.input, passes[p].jd_keywords, passes[p].jd_skills,
                                  OwnInsertions(p, k)) :
           out.bullet = r.output /\ out.inserted = r.inserted

\* C11: two optimize_experience calls that run interleaved do not influence
\* each other's keyword insertions: every enhance_bullet call of a pass
\* rewrites and inserts as it does when the pass runs alone with the same
\* random choices, and the used-keyword list of a pass holds its own
\* insertions only
C11_PassesIndependent ==
    \A p \in Passes :
        /\ \A k \in 1..Len(passes[p].log) : AsWhenAlone(p, k)
        /\ passes[p].pc # "call" =>
              passes[p].used_keywords_global
                  = OwnInsertions(p, Len(passes[p].log) + 1)

\* both passes have returned and the same keyword was inserted in each
C11_Witness ==
    /\ \A p \in Passes : passes[p].pc = "done"
    /\ \E i \in 1..Len(passes[1].log), j \in 1..Len(passes[2].log) :
          /\ passes[1].log[i].inserted = <<"Docker">>
          /\ passes[2].log[j].inserted = <<"Docker">>

\* C13: for a fixed JD text, analyze_jd yields the same technical_skills
\* list, with the same members in the same order, on every run.
C13_SameSkillsEveryRun ==
    pc = "done" /\ jd_analysis # EmptyDict =>
        result.technical_skills = jd_analysis.technical_skills

\* the level the claim gives a text made of year phrases a, b and keyword
\* phrase k: the pattern of lowest rank among those present decides (the
\* leftmost phrase of that pattern), its years map by <=2, <=5, <=8; with
\* no year phrase the first keyword set present decides
ClaimedLevel(a, b, k) ==
    LET kinds == {a.kind, b.kind} \ {0}
        first == IF a.kind = SetMin(kinds) THEN a ELSE b
        sets == <<"entry", "mid", "senior", "executive">>
        names == <<"junior", "mid-level", "senior", "executive/director">>
        present == {i \in 1..4 : sets[i] \in k.sets}
    IN  IF kinds # {}
        THEN IF first.years <= 2 THEN "junior"
             ELSE IF first.years <= 5 THEN "mid-level"
             ELSE IF first.years <= 8 THEN "senior"
             ELSE "staff/principal"
        ELSE IF present # {} THEN names[SetMin(present)]
        ELSE "mid-level"

\* C14: extract_experience_level uses the first year pattern, in the order
\* range, plus, minimum, at least, that matches anywhere in the text (the
\* upper bound of a range), maps the years by <=2 junior, <=5 mid-level,
\* <=8 senior, else staff/principal, and without a year pattern returns
\* the level of the first keyword set present, mid-level when none is.
C14_LevelByPriority ==
    pc = "done" =>
        /\ \A a \in YearPhrases, b \in YearPhrases, k \in KeywordPhrases :
              jd_text = LevelText(a, b, k) => result = ClaimedLevel(a, b, k)
        /\ jd_text = LevelExample => result = "senior"

\* a text where a later range phrase overrides an earlier minimum phrase and
\* a keyword: "Minimum 8 years; 1 to 2 years ...; reports to the CTO"
C14_Witness ==
    /\ pc = "done"
    /\ \E a \in YearPhrases, b \in YearPhrases, k \in KeywordPhrases :
          /\ jd_text = LevelText(a, b, k)
          /\ a.kind = 3 /\ a.years = 8
          /\ b.kind = 1 /\ b.years = 2
          /\ k.sets = {"executive"}
    /\ result = "junior"

\* C15: the rules are applied in list order and the first matching rule
\* alone decides: a sentence "Was responsible for <gerund> <rest>" becomes
\* "<past tense of the gerund> <rest>" by the first rule, never the result
\* of the general "was X" rule, and "Was responsible for managing a team of
\* 5 engineers" becomes exactly "Managed a team of 5 engineers".
C15_FirstRuleDecides ==
    pc = "done" =>
        /\ \A p \in ResponsiblePrefixes, g \in Gerunds, r \in ResponsibleRests :
              log[1].input = ResponsibleSentence(p, g, r) =>
                  log[1].output = g.past \o " " \o r
        /\ log[1].input = "Was responsible for managing a team of 5 engineers" =>
              log[1].output = "Managed a team of 5 engineers"

\* the claim's example has been rewritten
C15_Witness ==
    /\ pc = "done"
    /\ log[1].input = "Was responsible for managing a team of 5 engineers"
    /\ log[1].output = "Managed a team of 5 engineers"

\* no rule of SMART_TRANSFORMS matches the sentence and its first word is
\* not detected as a weak verb
NoRewriteApplies(sentence) ==
    LET clean == Strip(StripGlyphs(Strip(sentence)))
    IN  /\ clean # ""
        /\ ~apply_smart_transform(clean).matched
        /\ ~IsWeakVerb(Lower(Split(clean)[1]))

\* C18: when no rewrite rule matches a sentence and its first word is not
\* detected as a weak verb, replace_weak_verb returns the input sentence
\* unchanged, character for character, a leading bullet glyph included.
C18_ReturnedUnchanged ==
    pc = "done" /\ NoRewriteApplies(log[1].input) => log[1].output = log[1].input

\* C18 as amended: in that case replace_weak_verb returns the input sentence
\* without its leading and trailing whitespace and otherwise unchanged,
\* character for character, a leading bullet glyph included.
C18_ReturnedTrimmed ==
    pc = "done" /\ NoRewriteApplies(log[1].input) =>
        log[1].output = Strip(log[1].input)

\* a sentence behind a bullet glyph and before a space came back with the
\* glyph and without the space
C18_Witness ==
    /\ pc = "done"
    /\ NoRewriteApplies(log[1].input)
    /\ log[1].input = "- Led the migration to AWS "
    /\ log[1].output = "- Led the migration to AWS"

\* the category the claim's order picks among those with a trigger word in
\* the sentence, development when there is none
ClaimedCategory(cats) ==
    LET order == <<"collaboration", "development", "growth", "reduction", "analysis",
                   "leadership", "automation", "improvement">>
        present == {i \in 1..Len(order) : order[i] \in cats}
    IN  IF present = {} THEN "development" ELSE order[SetMin(present)]

\* the words of a text joined by single spaces
Words(text) == Join(Split(text), " ")

\* C19: when no rule matches and the first word is a weak verb followed by
\* at least one more word, replace_weak_verb returns "<V> <rest>": rest is
\* the remaining words as written, V a verb of the strong-verb pool of the
\* first category, in the order collaboration, development, growth,
\* reduction, analysis, leadership, automation, improvement, with a trigger
\* word in the sentence, and of the development pool when there is none.
C19_VerbFromFirstCategory ==
    pc = "done" =>
        \A l \in {"", "- "}, f \in WeakFirstWords, t \in WeakTails :
            log[1].input = WeakSentence(l, f, t) =>
                \E v \in Range(STRONG_VERBS[ClaimedCategory(t.cats)]) :
                    log[1].output = v \o " " \o Words(t.text)

\* a weak first word before trigger words of two categories: the verb comes
\* from the leadership pool, the earlier of the two
C19_Witness ==
    /\ pc = "done"
    /\ log[1].input = "- Helped two mentors and transformed hiring"
    /\ log[1].output = "Mentored two mentors and transformed hiring"

\* the domain the claim gives a text naming the chosen words: the domain
\* with the most keywords in the text, the first of the table among equals,
\* "Technology" when no domain has one
ClaimedDomain(chosen) ==
    LET table == <<"Software Engineering", "Data Science/ML", "DevOps/Cloud",
                   "Product Management", "Cybersecurity", "Finance/Fintech", "Design/UX",
                   "Marketing", "Data Engineering">>
        hits == [d \in 1..Len(table) |->
                    Cardinality({i \in chosen : table[d] \in DomainWords[i].domains})]
        most == SetMax({hits[d] : d \in 1..Len(table)})
    IN  IF most = 0 THEN "Technology"
        ELSE table[SetMin({d \in 1..Len(table) : hits[d] = most})]

\* C16: detect_industry_domain returns the domain whose keyword list has the
\* most hits in the text, the one that comes first in the domain table when
\* several share the highest count, and "Technology" when no domain keyword
\* occurs.
C16_DomainByHits ==
    pc = "done" =>
        \A chosen \in DomainChoices :
            jd_text = DomainText(chosen) => result = ClaimedDomain(chosen)

\* two domains share the highest count, one hit each, and the earlier of the
\* table is returned
C16_Witness ==
    /\ pc = "done"
    /\ jd_text = "We are hiring: brand; kafka;"
    /\ result = "Marketing"

\* the positions of a call of optimize_resume that has been entered
InOptimizeResume ==
    pc \in {"start", "summary", "skills", "experience", "entry", "bullet", "done", "raised"}

\* C17: in the /optimize handler optimize_resume is never invoked with an
\* empty JD profile: a request whose JD text has trimmed length below 50 is
\* answered with a 400 error before analyze_jd and optimize_resume are
\* called, and every profile passed to optimize_resume is a non-empty result
\* of analyze_jd.
C17_NeverEmptyProfile ==
    /\ InOptimizeResume =>
          /\ jd_analysis # EmptyDict
          /\ jd_analysis \in analyze_jd(jd_text)
    /\ Len(Strip(jd_text)) < 50 =>
          /\ pc \in {"request", "check", "responded"}
          /\ pc = "responded" => result.status = 400

\* a request with a resume and a JD text of 54 characters, 49 without the
\* surrounding whitespace, has been answered with the JD error
C17_Witness ==
    /\ pc = "responded"
    /\ Len(jd_text) > 50
    /\ Len(Strip(jd_text)) = 49
    /\ resume_data # EmptyDict
    /\ result = HttpError(400, "JD text too short or empty")

\* the trigger set of the language keyword kw_lower in the gate's table
TriggersOf(kw_lower) ==
    UNION {Range(LANG_KWS[i].triggers) : i \in {j \in 1..Len(LANG_KWS) : LANG_KWS[j].lang = kw_lower}}

\* C20: for each programming-language keyword of the gate (python,
\* javascript, typescript, java, go), is_contextually_relevant accepts the
\* keyword for a bullet only if the bullet mentions at least one framework
\* or tool of that language's trigger set.
C20_LanguageNeedsTrigger ==
    pc = "done" /\ log[1].accepted
    /\ Lower(log[1].keyword) \in {"python", "javascript", "typescript", "java", "go"} =>
        \E t \in TriggersOf(Lower(log[1].keyword)) : Contains(t, Lower(log[1].bullet))

\* the infra/cloud and the database-product keywords among GateKeywords
GateInfraKeywords == {"Kubernetes", "AWS", "Terraform", "s3"}

GateDatabaseKeywords == {"PostgreSQL", "Redis", "oracle"}

\* the bullet names a term of the bucket's list
InBucket(terms, bullet) == \E i \in 1..Len(terms) : Contains(terms[i], Lower(bullet))

\* C21: is_contextually_relevant never accepts a keyword that already occurs
\* (case-insensitively) in the bullet; an infra/cloud keyword that does not
\* occur in the bullet is accepted exactly when the bullet is in the devops
\* bucket, and a database-product keyword that does not occur in it exactly
\* when the bullet is in the data bucket.
C21_GateByBucket ==
    pc = "done" =>
        LET call == log[1]
            present == Contains(Lower(call.keyword), Lower(call.bullet))
        IN  /\ present => ~call.accepted
            /\ call.keyword \in GateInfraKeywords /\ ~present =>
                  (call.accepted <=> InBucket(DEVOPS_TERMS, call.bullet))
            /\ call.keyword \in GateDatabaseKeywords /\ ~present =>
                  (call.accepted <=> InBucket(DATA_TERMS, call.bullet))

\* the database keyword is accepted for a data bullet without a technical verb
C21_Witness ==
    /\ pc = "done"
    /\ log[1] = [keyword |-> "PostgreSQL", bullet |-> "Tuned SQL queries", accepted |-> TRUE]

\* the clause the claim gives for a bullet of these verb classes and keyword K
ClaimedClause(classes, K) ==
    IF "build" \in classes THEN ", leveraging " \o K
    ELSE IF "improve" \in classes THEN " with " \o K
    ELSE IF "deploy" \in classes
         THEN (IF K \in {"AWS"} THEN " on " ELSE " using ") \o K
    ELSE ""

\* C22: when the gate passes, insert_keyword_naturally appends exactly one
\* clause chosen by the bullet's verb class, tested in the order build
\* (", leveraging K"), improve (" with K"), deploy (" on K" for a cloud
\* platform, otherwise " using K"), and returns the bullet unchanged when no
\* class matches; for a bullet whose last non-space character is a period
\* the clause is placed before that period and the result ends with exactly
\* one period.
C22_ClauseByVerbClass ==
    pc = "done" /\ is_contextually_relevant(log[1].keyword, log[1].stem.text \o log[1].ending) =>
        LET call == log[1]
            clause == ClaimedClause(call.stem.classes, call.keyword)
        IN  IF clause = "" THEN call.output = call.stem.text \o call.ending
            ELSE IF call.ending \in {".", ". "}
                 THEN call.output \in {call.stem.text \o clause \o ".",
                                       call.stem.text \o clause \o ". "}
            ELSE call.output = call.stem.text \o call.ending \o clause

\* the JD's words: its technical skills and its keywords
JDWords == Range(jd_analysis.technical_skills) \cup Range(jd_analysis.keywords)

\* the JD words that call i of enhance_bullet put into its bullet
AddedBy(i) ==
    {k \in JDWords : /\ Contains(k, log[i].output)
                     /\ ~Contains(Lower(k), Lower(log[i].input))}

\* the positions among the first twelve technical skills of the skills that
\* were not inserted before call i, are absent from the rewritten bullet and
\* pass the gate for it
Eligible(i, rewritten) ==
    {j \in 1..Min(12, Len(jd_analysis.technical_skills)) :
        LET skill == jd_analysis.technical_skills[j]
        IN  /\ \A h \in 1..(i - 1) : skill \notin AddedBy(h)
            /\ ~Contains(Lower(skill), Lower(rewritten))
            /\ is_contextually_relevant(skill, rewritten)}

\* C23: enhance_bullet inserts at most one keyword into a bullet, and when it
\* inserts one it is the earliest of the first 12 JD technical skills that
\* has not been used earlier in the pass, is absent from the rewritten
\* bullet and passes the relevance gate; skills beyond the twelfth and JD
\* keywords are never inserted.
C23_EarliestEligibleSkill ==
    \A i \in 1..Len(log) :
        \E rewritten \in replace_weak_verb(log[i].input) :
            \/ AddedBy(i) = {} /\ log[i].output = UpperFirst(rewritten)
            \/ /\ Eligible(i, rewritten) # {}
               /\ AddedBy(i) = {jd_analysis.technical_skills[SetMin(Eligible(i, rewritten))]}

\* the third bullet gets nothing although the thirteenth skill, Docker,
\* would pass the gate for it; the first two got React and Flask
C23_Witness ==
    /\ pc = "returned"
    /\ Len(jd_analysis.technical_skills) > 12
    /\ Len(log) = 3
    /\ log[1].output = "Designed the onboarding flow, leveraging React"
    /\ log[2].output = "Built the signup form, leveraging Flask"
    /\ log[3].output = "Created the landing page"
    /\ is_contextually_relevant("Docker", log[3].output)

\* the index of the first entry of S equal to skill without regard to case
FirstIndex(skill, S) ==
    CHOOSE i \in 1..Len(S) :
        /\ Lower(S[i]) = Lower(skill)
        /\ \A j \in 1..(i - 1) : Lower(S[j]) # Lower(skill)

\* C24: optimize_skills_section keeps every existing resume skill: its output
\* has no two entries equal case-insensitively, every input skill occurs in
\* it with the casing of its first occurrence in the input, the input skills
\* keep their relative order, and every added JD skill comes after all of them.
C24_ExistingSkillsKept ==
    pc = "done" =>
        LET S == Get(resume_data, "skills", <<>>)
        IN  /\ \A k, l \in 1..Len(result) : k # l => Lower(result[k]) # Lower(result[l])
            /\ \A i \in 1..Len(S) :
                  \E k \in 1..Len(result) : result[k] = S[FirstIndex(S[i], S)]
            /\ \A k, l \in 1..Len(result) :
                  k < l /\ InSkillList(result[l], S) =>
                      /\ InSkillList(result[k], S)
                      /\ FirstIndex(result[k], S) < FirstIndex(result[l], S)

\* a skill listed twice in different casings is kept once, as first written,
\* before the added JD skill
C24_Witness ==
    /\ pc = "done"
    /\ Get(resume_data, "skills", <<>>) = <<"python", "Python">>
    /\ Get(jd_analysis, "technical_skills", <<>>) = <<"java", "Python">>
    /\ result = <<"python", "java">>

\* the number of entries of the JD list that occur in the resume text,
\* without regard to case
MatchedCount(jd_list) ==
    Cardinality({i \in 1..Len(jd_list) :
                   Contains(Lower(jd_list[i]), Lower(Get(resume_data, "full_text", "")))})

\* floor(matched * max / jd_count), 0 for an empty JD list
ClaimedCategoryScore(jd_list, max) ==
    IF jd_list = <<>> THEN 0 ELSE (MatchedCount(jd_list) * max) \div Len(jd_list)

\* 3 points per section present among the four, 3 for a present email
ClaimedFormatScore ==
    3 * Cardinality({"experience", "education", "skills", "summary"}
                    \cap DOMAIN Get(resume_data, "raw_sections", EmptyDict))
    + (IF Get(Get(resume_data, "contact", EmptyDict), "email", "") # "" THEN 3 ELSE 0)

\* C25: before the floor of 15 is applied, the ATS total is the sum of
\* floor(matched * max / jd_count) over technical skills (max 40), keywords
\* (max 30) and soft skills (max 15) with a non-empty JD list, plus the
\* format score; a category with an empty JD list contributes 0 and has no
\* breakdown entry, and every breakdown score is between 0 and its max.
C25_ScoreIsSumOfCategories ==
    pc = "done" =>
        LET tech == Get(jd_analysis, "technical_skills", <<>>)
            kws == Get(jd_analysis, "keywords", <<>>)
            soft == Get(jd_analysis, "soft_skills", <<>>)
            sum == ClaimedCategoryScore(tech, 40) + ClaimedCategoryScore(kws, 30)
                   + ClaimedCategoryScore(soft, 15) + ClaimedFormatScore
            b == result.breakdown
        IN  /\ result.total = (IF sum < 15 THEN 15 ELSE sum)
            /\ ("technical_skills" \in DOMAIN b) = (tech # <<>>)
            /\ ("keywords" \in DOMAIN b) = (kws # <<>>)
            /\ ("soft_skills" \in DOMAIN b) = (soft # <<>>)
            /\ tech # <<>> => b["technical_skills"].score = ClaimedCategoryScore(tech, 40)
            /\ kws # <<>> => b["keywords"].score = ClaimedCategoryScore(kws, 30)
            /\ soft # <<>> => b["soft_skills"].score = ClaimedCategoryScore(soft, 15)
            /\ b["format"].score = ClaimedFormatScore
            /\ \A c \in DOMAIN b : b[c].score >= 0 /\ b[c].score <= b[c].max

\* two of three technical skills matched give 26 of 40, the keywords have no
\* entry, and the total is above the floor
C25_Witness ==
    /\ pc = "done"
    /\ Len(Get(jd_analysis, "technical_skills", <<>>)) = 3
    /\ DOMAIN result.breakdown = {"technical_skills", "soft_skills", "format"}
    /\ result.breakdown["technical_skills"].score = 26
    /\ result.breakdown["soft_skills"].score = 15
    /\ result.breakdown["format"].score = 12
    /\ result.total = 53

\* the skill occurs in the resume: in its full text or in its skills list
InResume(skill) ==
    \/ Contains(Lower(skill), Lower(Get(resume_data, "full_text", "")))
    \/ \E i \in 1..Len(Get(resume_data, "skills", <<>>)) :
          Contains(Lower(skill), Lower(resume_data.skills[i]))

\* C26: the rewritten summary fabricates no skill claim: every JD technical
\* skill that rewrite_summary names in the summary occurs in the resume (in
\* its full text or its skills list), also when no JD technical skill occurs
\* in the resume.
C26_NoFabricatedSkill ==
    pc \notin {"start", "summary"} =>
        \A skill \in Range(Get(jd_analysis, "technical_skills", <<>>)) :
            Contains(Lower(skill), Lower(new_summary)) => InResume(skill)

\* the text of the optimized resume: its summary, its skills and its bullets
OptimizedResumeText ==
    Join(<<result.optimized.summary, Join(result.optimized.skills, " ")>>
         \o AllBullets(result.optimized.experience), " ")

\* k occurs in the text, without regard to case
OccursIn(k, text) == Contains(Lower(k), Lower(text))

\* the list holds k, without regard to case
Reports(list, k) == \E i \in 1..Len(list) : Lower(list[i]) = Lower(k)

CategoriesOf(skill) ==
    {c \in 1..Len(SKILLS_DB) :
        \E i \in 1..Len(SKILLS_DB[c].skills) : Lower(SKILLS_DB[c].skills[i]) = Lower(skill)}

\* C28: optimize_skills_section adds every JD technical skill that is not
\* already one of the resume's skills (case-insensitive equality) and that
\* belongs to a taxonomy category in which the resume already has a skill,
\* also when the JD skill is a substring of an existing skill or is listed
\* in more than one category.
C28_AddsEverySameCategorySkill ==
    pc = "done" =>
        LET S == Get(resume_data, "skills", <<>>)
            J == Get(jd_analysis, "technical_skills", <<>>)
        IN  \A j \in 1..Len(J) :
                /\ ~InSkillList(J[j], S)
                /\ \E i \in 1..Len(S) : CategoriesOf(J[j]) \cap CategoriesOf(S[i]) # {}
                => InSkillList(J[j], result)

\* the grade that corresponds to a total
GradeFor(total) ==
    IF total >= 85 THEN "A" ELSE IF total >= 70 THEN "B" ELSE IF total >= 55 THEN "C" ELSE "D"

\* C29: optimization never lowers the reported score: optimize_resume
\* returns ats.after >= ats.before, and the returned grade is the grade that
\* corresponds to ats.after.
C29_ScoreNeverLowered ==
    pc = "done" =>
        /\ result.ats.after >= result.ats.before
        /\ result.ats.grade = GradeFor(result.ats.after)

\* a run that raises the score from 35 to 63, and so to grade C
C29_Witness ==
    /\ pc = "done"
    /\ result.ats.before = 35
    /\ result.ats.after = 63
    /\ result.ats.grade = "C"

\* C30: the rule-based rewrite is idempotent: for every sentence that a
\* pattern rule rewrites, replace_weak_verb applied to the rewritten
\* sentence returns it unchanged.
C30_RewriteIdempotent ==
    pc = "done" /\ apply_smart_transform(log[1].input).matched =>
        log[2].output = log[1].output

=============================================================================
